---------------------------- MODULE Spec2Model ----------------------------
(***************************************************************************)
(* A model of the shakmaty legal-move engine: positions of standard chess  *)
(* and its variants, the shared do_move transition, the move generators of *)
(* position.rs, the UCI conversion of uci.rs and the board FEN of fen.rs.  *)
(*                                                                         *)
(* A Bitboard is modelled as the set of its squares, an Option<Square> as  *)
(* a set of at most one square, an Option<Role> as a role or "None", and a *)
(* MoveList as a bag of moves (the order of a list is never observed by    *)
(* the properties below, its multiplicities are).                          *)
(***************************************************************************)
EXTENDS Integers, Sequences, FiniteSets, Bags, TLC

(***************************************************************************)
(* Primitives: squares, colours, roles, pieces.                            *)
(***************************************************************************)
Squares == 0 .. 63

SQ ==
  [a1 |-> 0,  b1 |-> 1,  c1 |-> 2,  d1 |-> 3,  e1 |-> 4,  f1 |-> 5,  g1 |-> 6,  h1 |-> 7,
   a2 |-> 8,  b2 |-> 9,  c2 |-> 10, d2 |-> 11, e2 |-> 12, f2 |-> 13, g2 |-> 14, h2 |-> 15,
   a3 |-> 16, b3 |-> 17, c3 |-> 18, d3 |-> 19, e3 |-> 20, f3 |-> 21, g3 |-> 22, h3 |-> 23,
   a4 |-> 24, b4 |-> 25, c4 |-> 26, d4 |-> 27, e4 |-> 28, f4 |-> 29, g4 |-> 30, h4 |-> 31,
   a5 |-> 32, b5 |-> 33, c5 |-> 34, d5 |-> 35, e5 |-> 36, f5 |-> 37, g5 |-> 38, h5 |-> 39,
   a6 |-> 40, b6 |-> 41, c6 |-> 42, d6 |-> 43, e6 |-> 44, f6 |-> 45, g6 |-> 46, h6 |-> 47,
   a7 |-> 48, b7 |-> 49, c7 |-> 50, d7 |-> 51, e7 |-> 52, f7 |-> 53, g7 |-> 54, h7 |-> 55,
   a8 |-> 56, b8 |-> 57, c8 |-> 58, d8 |-> 59, e8 |-> 60, f8 |-> 61, g8 |-> 62, h8 |-> 63]

White == "White"
Black == "Black"
Colors == {White, Black}

Roles == {"Pawn", "Knight", "Bishop", "Rook", "Queen", "King"}
None == "None"

Max2(a, b) == IF a < b THEN b ELSE a

\* Color: !color and fold(w, b).
Not(color) == IF color = White THEN Black ELSE White
fold(color, w, b) == IF color = White THEN w ELSE b
is_white(color) == color = White
is_black(color) == color = Black

\* Piece { color, role } and Role::of(color).
Piece(color, role) == [color |-> color, role |-> role]

\* Square: file(), rank(), from_coords, offset, distance, combine, delta.
file(sq) == sq % 8
rank(sq) == sq \div 8
from_coords(f, r) ==
  IF 0 <= f /\ f < 8 /\ 0 <= r /\ r < 8 THEN {r * 8 + f} ELSE {}
offset(sq, d) == IF sq + d \in Squares THEN {sq + d} ELSE {}
distance(a, b) ==
  Max2(Max2(file(a) - file(b), file(b) - file(a)),
       Max2(rank(a) - rank(b), rank(b) - rank(a)))
combine(a, b) == rank(b) * 8 + file(a)
delta(a, b) == a - b

(***************************************************************************)
(* Bitboard: sets of squares.                                              *)
(***************************************************************************)
Rank(r) == {s \in Squares : rank(s) = r}
relative_rank(color, r) ==
  IF 0 <= r /\ r < 8 THEN Rank(fold(color, r, 7 - r)) ELSE {}
relative_shift(bb, color, shift) ==
  IF color = White THEN {s + shift : s \in {t \in bb : t + shift <= 63}}
                   ELSE {s - shift : s \in {t \in bb : t - shift >= 0}}
first(bb) == {s \in bb : \A t \in bb : s <= t}
last(bb) == {s \in bb : \A t \in bb : t <= s}
more_than_one(bb) == Cardinality(bb) >= 2
single_square(bb) == IF more_than_one(bb) THEN {} ELSE first(bb)
Xor(a, b) == (a \ b) \cup (b \ a)

DARK_SQUARES == {s \in Squares : (file(s) + rank(s)) % 2 = 0}
LIGHT_SQUARES == Squares \ DARK_SQUARES
HILL == {SQ.d4, SQ.e4, SQ.d5, SQ.e5}
BACKRANKS == Rank(0) \cup Rank(7)

(***************************************************************************)
(* Attack tables.                                                          *)
(***************************************************************************)
RookDirs == {<<1, 0>>, <<0, 1>>, <<-1, 0>>, <<0, -1>>}
BishopDirs == {<<1, 1>>, <<-1, 1>>, <<-1, -1>>, <<1, -1>>}

StepTargets(sq, deltas) ==
  UNION {from_coords(file(sq) + d[1], rank(sq) + d[2]) : d \in deltas}

KingTable ==
  [sq \in Squares |->
    StepTargets(sq, {<<1, 0>>, <<1, 1>>, <<0, 1>>, <<-1, 1>>,
     <<-1, 0>>, <<-1, -1>>, <<0, -1>>, <<1, -1>>})]
KnightTable ==
  [sq \in Squares |->
    StepTargets(sq, {<<1, 2>>, <<2, 1>>, <<2, -1>>, <<1, -2>>,
     <<-1, -2>>, <<-2, -1>>, <<-2, 1>>, <<-1, 2>>})]
PawnTable ==
  [color \in Colors |-> [sq \in Squares |->
     StepTargets(sq, {<<-1, fold(color, 1, -1)>>, <<1, fold(color, 1, -1)>>})]]

\* The squares met walking from sq in direction d, nearest first.
Walk(sq, d) ==
  [i \in 1 .. 7 |-> from_coords(file(sq) + i * d[1], rank(sq) + i * d[2])]
WalkTable == [sq \in Squares |-> [d \in RookDirs \cup BishopDirs |-> Walk(sq, d)]]

\* Ray-trace to the first blocker in direction d; the blocker is included.
SlideDir(sq, d, occupied) ==
  LET w == WalkTable[sq][d] IN
  UNION {w[i] : i \in {j \in 1 .. 7 : \A k \in 1 .. (j - 1) : w[k] \cap occupied = {}}}
Slide(sq, dirs, occupied) == UNION {SlideDir(sq, d, occupied) : d \in dirs}

king_attacks(sq) == KingTable[sq]
knight_attacks(sq) == KnightTable[sq]
pawn_attacks(color, sq) == PawnTable[color][sq]
rook_attacks(sq, occupied) == Slide(sq, RookDirs, occupied)
bishop_attacks(sq, occupied) == Slide(sq, BishopDirs, occupied)
queen_attacks(sq, occupied) == rook_attacks(sq, occupied) \cup bishop_attacks(sq, occupied)

\* The direction (a unit step) leading from a to b, if they share a line.
DirsTo(a, b) ==
  {d \in RookDirs \cup BishopDirs :
     \E i \in 1 .. 7 : WalkTable[a][d][i] = {b}}
LineTable ==
  [a \in Squares |-> [b \in Squares |->
     IF DirsTo(a, b) = {} THEN {}
     ELSE LET d == CHOOSE e \in DirsTo(a, b) : TRUE IN
          {a} \cup UNION {WalkTable[a][d][i] : i \in 1 .. 7}
              \cup UNION {WalkTable[a][<<0 - d[1], 0 - d[2]>>][i] : i \in 1 .. 7}]]
BetweenTable ==
  [a \in Squares |-> [b \in Squares |->
     IF DirsTo(a, b) = {} THEN {}
     ELSE LET d == CHOOSE e \in DirsTo(a, b) : TRUE IN
          {s \in UNION {WalkTable[a][d][i] : i \in 1 .. 7} :
             distance(a, s) < distance(a, b)}]]

\* ray(a, b): the whole rank, file or diagonal holding both squares (the
\* caller in evasions removes the checker from it with xor); empty when the
\* squares are not aligned.  between(a, b): the squares strictly between.
ray(a, b) == LineTable[a][b]
between(a, b) == BetweenTable[a][b]
aligned(a, b, c) == c \in ray(a, b)

(***************************************************************************)
(* Board: bitboards by colour and by role, and the promoted overlay.       *)
(***************************************************************************)
EmptyBoard ==
  [white |-> {}, black |-> {}, pawns |-> {}, knights |-> {}, bishops |-> {},
   rooks |-> {}, queens |-> {}, kings |-> {}, promoted |-> {}]

occupied(board) == board.white \cup board.black
by_color(board, color) == IF color = White THEN board.white ELSE board.black
by_role(board, role) ==
  CASE role = "Pawn" -> board.pawns
    [] role = "Knight" -> board.knights
    [] role = "Bishop" -> board.bishops
    [] role = "Rook" -> board.rooks
    [] role = "Queen" -> board.queens
    [] role = "King" -> board.kings
by_piece(board, piece) == by_color(board, piece.color) \cap by_role(board, piece.role)
rooks_and_queens(board) == board.rooks \cup board.queens
bishops_and_queens(board) == board.bishops \cup board.queens
sliders(board) == board.bishops \cup board.rooks \cup board.queens

role_at(board, sq) ==
  CASE sq \in board.pawns -> "Pawn"
    [] sq \in board.knights -> "Knight"
    [] sq \in board.bishops -> "Bishop"
    [] sq \in board.rooks -> "Rook"
    [] sq \in board.queens -> "Queen"
    [] sq \in board.kings -> "King"
    [] OTHER -> None
color_at(board, sq) == IF sq \in board.white THEN White ELSE Black
\* piece_at: the set holding the piece on sq, empty when sq is empty.
piece_at(board, sq) ==
  IF sq \in occupied(board) THEN {Piece(color_at(board, sq), role_at(board, sq))} ELSE {}

remove_piece_at(board, sq) ==
  [white |-> board.white \ {sq}, black |-> board.black \ {sq},
   pawns |-> board.pawns \ {sq}, knights |-> board.knights \ {sq},
   bishops |-> board.bishops \ {sq}, rooks |-> board.rooks \ {sq},
   queens |-> board.queens \ {sq}, kings |-> board.kings \ {sq},
   promoted |-> board.promoted \ {sq}]

set_piece_at(board, sq, piece, promoted) ==
  LET b == remove_piece_at(board, sq)
      add(bb, cond) == IF cond THEN bb \cup {sq} ELSE bb
  IN [white |-> add(b.white, piece.color = White),
      black |-> add(b.black, piece.color = Black),
      pawns |-> add(b.pawns, piece.role = "Pawn"),
      knights |-> add(b.knights, piece.role = "Knight"),
      bishops |-> add(b.bishops, piece.role = "Bishop"),
      rooks |-> add(b.rooks, piece.role = "Rook"),
      queens |-> add(b.queens, piece.role = "Queen"),
      kings |-> add(b.kings, piece.role = "King"),
      promoted |-> add(b.promoted, promoted)]

\* The king of a colour; a promoted king (Giveaway) is not one.
king_of(board, color) ==
  first((board.kings \cap by_color(board, color)) \ board.promoted)

attacks_to(board, sq, attacker, occ) ==
  by_color(board, attacker) \cap
    ((rook_attacks(sq, occ) \cap rooks_and_queens(board)) \cup
     (bishop_attacks(sq, occ) \cap bishops_and_queens(board)) \cup
     (knight_attacks(sq) \cap board.knights) \cup
     (king_attacks(sq) \cap board.kings) \cup
     (pawn_attacks(Not(attacker), sq) \cap board.pawns))

(***************************************************************************)
(* Pockets and RemainingChecks: saturating 8-bit counts.                   *)
(***************************************************************************)
U8Max == 255
saturating_add(n, k, max) == IF n + k > max THEN max ELSE n + k

PocketsDefault == [c \in Colors |-> [r \in Roles |-> 0]]
pockets_add(pockets, piece) ==
  [pockets EXCEPT ![piece.color][piece.role] = saturating_add(@, 1, U8Max)]
pockets_remove(pockets, piece) ==
  [pockets EXCEPT ![piece.color][piece.role] = IF @ = 0 THEN 0 ELSE @ - 1]
pockets_by_piece(pockets, piece) == pockets[piece.color][piece.role]
RECURSIVE SumOver(_, _)
SumOver(f, dom) ==
  IF dom = {} THEN 0
  ELSE LET x == CHOOSE y \in dom : TRUE IN f[x] + SumOver(f, dom \ {x})
pockets_count(pockets) == SumOver(pockets[White], Roles) + SumOver(pockets[Black], Roles)

\* u32 counters (halfmove clock, fullmoves).  A value is kept as two 16-bit
\* limbs, [hi, lo] standing for hi * 2^16 + lo, so that the full width of
\* the type is covered.
U16Max == 65535
U32(hi, lo) == [hi |-> hi, lo |-> lo]
U32Max == U32(U16Max, U16Max)
\* u32::saturating_add(1)
saturating_add_one(n) ==
  IF n = U32Max THEN U32Max
  ELSE IF n.lo = U16Max THEN U32(n.hi + 1, 0)
  ELSE U32(n.hi, n.lo + 1)

RemainingChecksDefault == [c \in Colors |-> 3]
subtract(checks, color) == [checks EXCEPT ![color] = IF @ = 0 THEN 0 ELSE @ - 1]

(***************************************************************************)
(* Moves.                                                                  *)
(***************************************************************************)
Normal(role, from, capture, to, promotion) ==
  [kind |-> "Normal", role |-> role, from |-> from, capture |-> capture,
   to |-> to, promotion |-> promotion]
EnPassant(from, to) == [kind |-> "EnPassant", from |-> from, to |-> to]
Castle(king, rook) == [kind |-> "Castle", king |-> king, rook |-> rook]
Put(role, to) == [kind |-> "Put", role |-> role, to |-> to]
Null == [kind |-> "Null"]

\* types::Move: the values of the move type.
Moves ==
  [kind : {"Normal"}, role : Roles, from : Squares, capture : Roles \cup {None},
   to : Squares, promotion : Roles \cup {None}]
    \cup [kind : {"EnPassant"}, from : Squares, to : Squares]
    \cup [kind : {"Castle"}, king : Squares, rook : Squares]
    \cup [kind : {"Put"}, role : Roles, to : Squares]
    \cup {Null}

(***************************************************************************)
(* Positions.  A position of any variant is a record                       *)
(*   [variant, board, pockets, turn, castling_rights, ep_square,           *)
(*    remaining_checks, halfmove_clock, fullmoves];                        *)
(* pockets are used by Crazyhouse and remaining_checks by ThreeCheck only. *)
(***************************************************************************)
us(pos) == by_color(pos.board, pos.turn)
them(pos) == by_color(pos.board, Not(pos.turn))
our(pos, role) == us(pos) \cap by_role(pos.board, role)
their(pos, role) == them(pos) \cap by_role(pos.board, role)

KING_PROMOTIONS(variant) == variant = "Giveaway"

\* do_move, a castling move with the castling rights left as they were
do_move_castle_keeping_rights(pos, m, clock) ==
  LET color == pos.turn
      rook_to == combine(IF delta(m.rook, m.king) < 0 THEN SQ.d1 ELSE SQ.f1, m.rook)
      king_to == combine(IF delta(m.rook, m.king) < 0 THEN SQ.c1 ELSE SQ.g1, m.king)
      b1 == remove_piece_at(remove_piece_at(pos.board, m.king), m.rook)
      b2 == set_piece_at(b1, rook_to, Piece(color, "Rook"), FALSE)
  IN [board |-> set_piece_at(b2, king_to, Piece(color, "King"), FALSE),
      castling_rights |-> pos.castling_rights,
      ep_square |-> {},
      halfmove_clock |-> clock]

\* do_move, a castling move: the board, the castling rights, the en passant
\* square and the halfmove clock it leaves.
do_move_castle(pos, m, clock) ==
  LET color == pos.turn
      rook_to == combine(IF delta(m.rook, m.king) < 0 THEN SQ.d1 ELSE SQ.f1, m.rook)
      king_to == combine(IF delta(m.rook, m.king) < 0 THEN SQ.c1 ELSE SQ.g1, m.king)
      b1 == remove_piece_at(remove_piece_at(pos.board, m.king), m.rook)
      b2 == set_piece_at(b1, rook_to, Piece(color, "Rook"), FALSE)
  IN [board |-> set_piece_at(b2, king_to, Piece(color, "King"), FALSE),
      castling_rights |-> pos.castling_rights \ relative_rank(color, 0),
      ep_square |-> {},
      halfmove_clock |-> clock]

\* The shared state transition.
do_move(pos, m) ==
  LET color == pos.turn
      clock == saturating_add_one(pos.halfmove_clock)
      moved ==
        CASE m.kind = "Normal" ->
               LET promoted == m.from \in pos.board.promoted \/ m.promotion # None
                   placed == IF m.promotion = None THEN Piece(color, m.role)
                             ELSE Piece(color, m.promotion)
               IN [board |-> set_piece_at(remove_piece_at(pos.board, m.from),
                                          m.to, placed, promoted),
                   castling_rights |->
                     IF m.role = "King"
                     THEN pos.castling_rights \ relative_rank(color, 0)
                     ELSE (pos.castling_rights \ {m.from}) \ {m.to},
                   ep_square |->
                     IF m.role = "Pawn" /\ distance(m.from, m.to) = 2
                     THEN offset(m.from, fold(color, 8, -8)) ELSE {},
                   halfmove_clock |->
                     IF m.role = "Pawn" \/ m.capture # None THEN U32(0, 0) ELSE clock]
          [] m.kind = "Castle" -> do_move_castle(pos, m, clock)
          [] m.kind = "EnPassant" ->
               LET b1 == remove_piece_at(pos.board, combine(m.to, m.from))
                   moving == piece_at(b1, m.from)
                   b2 == remove_piece_at(b1, m.from)
               IN [board |-> IF moving = {} THEN b2
                             ELSE set_piece_at(b2, m.to, CHOOSE p \in moving : TRUE, FALSE),
                   castling_rights |-> pos.castling_rights,
                   ep_square |-> {},
                   halfmove_clock |-> U32(0, 0)]
          [] m.kind = "Put" ->
               [board |-> set_piece_at(pos.board, m.to, Piece(color, m.role), FALSE),
                castling_rights |-> pos.castling_rights,
                ep_square |-> {},
                halfmove_clock |-> clock]
  IN [pos EXCEPT !.board = moved.board,
                 !.castling_rights = moved.castling_rights,
                 !.ep_square = moved.ep_square,
                 !.halfmove_clock = moved.halfmove_clock,
                 !.fullmoves = IF is_black(color) THEN saturating_add_one(@) ELSE @,
                 !.turn = Not(color)]

(***************************************************************************)
(* Move lists.                                                             *)
(***************************************************************************)
NoMoves == SetToBag({})
is_empty(moves) == DOMAIN moves = {}
contains(moves, m) == m \in DOMAIN moves
\* util::swap_retain: keep the entries that satisfy the predicate.
swap_retain(moves, keep) ==
  [m \in {x \in DOMAIN moves : keep[x]} |-> moves[m]]

(***************************************************************************)
(* Per-variant attack queries.                                             *)
(***************************************************************************)
\* Setup::castling_rights: RacingKings stores none.
castling_rights(pos) == IF pos.variant = "RacingKings" THEN {} ELSE pos.castling_rights

king_attackers(pos, square, attacker, occ) ==
  CASE pos.variant = "Giveaway" -> {}
    [] pos.variant = "Atomic" ->
         IF king_attacks(square) \cap by_piece(pos.board, Piece(attacker, "King")) # {}
         THEN {}
         ELSE attacks_to(pos.board, square, attacker, occ)
    [] OTHER -> attacks_to(pos.board, square, attacker, occ)

\* castling_uncovers_rank_attack that finds no attack
rank_attack_never_uncovered(pos, rook, king_to) == FALSE
rank_attack_uncovered(pos, rook, king_to) ==
  (rook_attacks(king_to, occupied(pos.board) \ {rook}) \cap them(pos)
     \cap rooks_and_queens(pos.board) \cap Rank(rank(king_to))) # {}

castling_uncovers_rank_attack(pos, rook, king_to) ==
  CASE pos.variant = "Giveaway" -> FALSE
    [] pos.variant = "Atomic" ->
         (king_attacks(king_to) \cap pos.board.kings \cap them(pos)) = {}
           /\ rank_attack_uncovered(pos, rook, king_to)
    [] OTHER -> rank_attack_uncovered(pos, rook, king_to)

checkers(pos) ==
  LET k == first(our(pos, "King")) IN
  IF k = {} THEN {}
  ELSE king_attackers(pos, CHOOSE sq \in k : TRUE, Not(pos.turn), occupied(pos.board))

(***************************************************************************)
(* play_unchecked, per variant.                                            *)
(***************************************************************************)
\* Crazyhouse::play_unchecked that leaves the pockets alone
CrazyhousePlayUncheckedKeepingPockets(pos, m) ==
  [do_move(pos, m) EXCEPT !.pockets = pos.pockets,
                          !.halfmove_clock = saturating_add_one(pos.halfmove_clock)]

CrazyhousePlayUnchecked(pos, m) ==
  LET turn == pos.turn
      after == do_move(pos, m)
      pockets ==
        CASE m.kind = "Normal" /\ m.capture # None ->
               pockets_add(pos.pockets, Piece(turn, m.capture))
          [] m.kind = "EnPassant" -> pockets_add(pos.pockets, Piece(turn, "Pawn"))
          [] m.kind = "Put" -> pockets_remove(pos.pockets, Piece(turn, m.role))
          [] OTHER -> pos.pockets
  IN [after EXCEPT !.pockets = pockets,
                   !.halfmove_clock = saturating_add_one(pos.halfmove_clock)]

\* ThreeCheck::play_unchecked charging the check to the side that received it.
ThreeCheckPlayUncheckedReceiver(pos, m) ==
  LET after == do_move(pos, m)
  IN IF checkers(after) # {}
     THEN [after EXCEPT !.remaining_checks = subtract(@, after.turn)]
     ELSE after

ThreeCheckPlayUnchecked(pos, m) ==
  LET turn == pos.turn
      after == do_move(pos, m)
  IN IF checkers(after) # {}
     THEN [after EXCEPT !.remaining_checks = subtract(@, turn)]
     ELSE after

\* Board::remove_piece_at for every square of a bitboard.
remove_pieces_at(board, bb) ==
  [white |-> board.white \ bb, black |-> board.black \ bb,
   pawns |-> board.pawns \ bb, knights |-> board.knights \ bb,
   bishops |-> board.bishops \ bb, rooks |-> board.rooks \ bb,
   queens |-> board.queens \ bb, kings |-> board.kings \ bb,
   promoted |-> board.promoted \ bb]

\* An explosion that takes the pawns around `to` as well.
AtomicExplosionWithPawns(after, board, to) ==
  [after EXCEPT
     !.board = remove_pieces_at(board, king_attacks(to) \cap occupied(board)),
     !.castling_rights = @ \ (king_attacks(to) \cap occupied(board))]

\* The explosion of a capture on `to`, on the board left by removing the
\* capturing piece.
AtomicExplosion(after, board, to) ==
  [after EXCEPT
     !.board = remove_pieces_at(board, (king_attacks(to) \cap occupied(board)) \ board.pawns),
     !.castling_rights = @ \ ((king_attacks(to) \cap occupied(board)) \ board.pawns)]

AtomicCapture(after, to) == AtomicExplosion(after, remove_piece_at(after.board, to), to)

AtomicPlayUnchecked(pos, m) ==
  IF (m.kind = "Normal" /\ m.capture # None) \/ m.kind = "EnPassant"
  THEN AtomicCapture(do_move(pos, m), m.to)
  ELSE do_move(pos, m)

RacingKingsPlayUnchecked(pos, m) ==
  \* the castling rights handed to do_move are a throw-away empty bitboard
  [do_move([pos EXCEPT !.castling_rights = {}], m) EXCEPT !.castling_rights = {}]

\* play_unchecked with the side to move left as it was.
play_unchecked_keeping_turn(pos, m) ==
  [(CASE pos.variant = "Crazyhouse" -> CrazyhousePlayUnchecked(pos, m)
      [] pos.variant = "ThreeCheck" -> ThreeCheckPlayUnchecked(pos, m)
      [] pos.variant = "Atomic" -> AtomicPlayUnchecked(pos, m)
      [] pos.variant = "RacingKings" -> RacingKingsPlayUnchecked(pos, m)
      [] OTHER -> do_move(pos, m)) EXCEPT !.turn = pos.turn]

play_unchecked(pos, m) ==
  CASE pos.variant = "Crazyhouse" -> CrazyhousePlayUnchecked(pos, m)
    [] pos.variant = "ThreeCheck" -> ThreeCheckPlayUnchecked(pos, m)
    [] pos.variant = "Atomic" -> AtomicPlayUnchecked(pos, m)
    [] pos.variant = "RacingKings" -> RacingKingsPlayUnchecked(pos, m)
    [] OTHER -> do_move(pos, m)

(***************************************************************************)
(* Move generators.                                                        *)
(***************************************************************************)
StepperAttacks(role, from) ==
  IF role = "King" THEN king_attacks(from) ELSE knight_attacks(from)
SliderAttacks(role, from, occ) ==
  CASE role = "Bishop" -> bishop_attacks(from, occ)
    [] role = "Rook" -> rook_attacks(from, occ)
    [] role = "Queen" -> queen_attacks(from, occ)

\* Stepper::gen_moves (KingTag, KnightTag).
StepperGenMoves(role, pos, target) ==
  SetToBag(UNION {{Normal(role, from, role_at(pos.board, to), to, None) :
                     to \in StepperAttacks(role, from) \cap target} :
                  from \in our(pos, role)})

\* Slider::gen_moves (BishopTag, RookTag, QueenTag).
SliderGenMoves(role, pos, target) ==
  SetToBag(UNION {{Normal(role, from, role_at(pos.board, to), to, None) :
                     to \in SliderAttacks(role, from, occupied(pos.board)) \cap target} :
                  from \in our(pos, role)})

\* KnightTag::gen_safe_moves.
KnightGenSafeMoves(pos, target, blockers) ==
  SetToBag(UNION {{Normal("Knight", from, role_at(pos.board, to), to, None) :
                     to \in knight_attacks(from) \cap target} :
                  from \in our(pos, "Knight") \ blockers})

\* Slider::gen_safe_moves with the pinned pieces left out altogether.
SliderGenSafeMovesFreeOnly(role, pos, target, king, blockers) ==
  SetToBag(UNION {{Normal(role, from, role_at(pos.board, to), to, None) :
                     to \in SliderAttacks(role, from, occupied(pos.board)) \cap target} :
                  from \in our(pos, role) \ blockers})

\* Slider::gen_safe_moves.
SliderGenSafeMoves(role, pos, target, king, blockers) ==
  LET pieces == our(pos, role)
      free == UNION {{Normal(role, from, role_at(pos.board, to), to, None) :
                        to \in SliderAttacks(role, from, occupied(pos.board)) \cap target} :
                     from \in pieces \ blockers}
      pinned == UNION {{Normal(role, from, role_at(pos.board, to), to, None) :
                          to \in SliderAttacks(role, from, occupied(pos.board))
                                   \cap target \cap ray(from, king)} :
                       from \in pieces \cap blockers}
  IN SetToBag(free) (+) SetToBag(pinned)

push_promotions(variant, from, to, capture) ==
  SetToBag({Normal("Pawn", from, capture, to, p) :
              p \in (IF KING_PROMOTIONS(variant) THEN {"King"} ELSE {})
                      \cup {"Queen", "Rook", "Bishop", "Knight"}})

RECURSIVE BagSum(_)
BagSum(bags) ==
  IF bags = {} THEN NoMoves
  ELSE LET b == CHOOSE x \in bags : TRUE IN b (+) BagSum(bags \ {b})

gen_pawn_moves(pos, target, f) ==
  LET turn == pos.turn
      board == pos.board
      seventh == our(pos, "Pawn") \cap relative_rank(turn, 6)
      captures ==
        UNION {{Normal("Pawn", from, role_at(board, to), to, None) :
                  to \in {t \in pawn_attacks(turn, from) \cap them(pos) \cap target :
                            f[from, t]}} :
               from \in our(pos, "Pawn") \ seventh}
      capture_promotions ==
        BagSum(UNION {{push_promotions(pos.variant, from, to, role_at(board, to)) :
                         to \in {t \in pawn_attacks(turn, from) \cap them(pos) \cap target :
                                   f[from, t]}} :
                      from \in seventh})
      single_moves == relative_shift(our(pos, "Pawn"), turn, 8) \ occupied(board)
      double_moves == (relative_shift(single_moves, turn, 8) \cap relative_rank(turn, 3))
                        \ occupied(board)
      back(to, d) == offset(to, fold(turn, 0 - d, d))
      singles ==
        UNION {{Normal("Pawn", from, None, to, None) :
                  from \in {x \in back(to, 8) : f[x, to]}} :
               to \in (single_moves \cap target) \ BACKRANKS}
      single_promotions ==
        BagSum(UNION {{push_promotions(pos.variant, from, to, None) :
                         from \in {x \in back(to, 8) : f[x, to]}} :
                      to \in single_moves \cap target \cap BACKRANKS})
      doubles ==
        UNION {{Normal("Pawn", from, None, to, None) :
                  from \in {x \in back(to, 16) : f[x, to]}} :
               to \in double_moves \cap target}
  IN SetToBag(captures) (+) capture_promotions (+) SetToBag(singles)
       (+) single_promotions (+) SetToBag(doubles)

gen_en_passant(board, turn, ep_square, safe_king) ==
  LET them_ == by_color(board, Not(turn))
      safe(from, to) ==
        \A king \in safe_king :
          LET captured == combine(to, from)
              occ == Xor(Xor(occupied(board), {from}), {captured}) \cup {to}
          IN /\ ~ (\/ (king_attacks(king) \cap them_ \cap board.kings) # {}
                   \/ (knight_attacks(king) \cap them_ \cap board.knights) # {}
                   \/ (pawn_attacks(turn, king) \cap (them_ \ {captured})
                         \cap board.pawns) # {})
             /\ ~ (\/ (rook_attacks(king, occ) \cap them_ \cap rooks_and_queens(board)) # {}
                   \/ (bishop_attacks(king, occ) \cap them_
                         \cap bishops_and_queens(board)) # {})
  IN SetToBag(UNION {{EnPassant(from, to) :
                        from \in {x \in board.pawns \cap by_color(board, turn)
                                          \cap pawn_attacks(Not(turn), to) : safe(x, to)}} :
                     to \in ep_square})

slider_blockers(board, enemy, king) ==
  LET snipers == (rook_attacks(king, {}) \cap rooks_and_queens(board)) \cup
                 (bishop_attacks(king, {}) \cap bishops_and_queens(board))
  IN UNION {LET b == between(king, sniper) \cap occupied(board)
            IN IF ~ more_than_one(b) THEN b ELSE {} :
            sniper \in snipers \cap enemy}

gen_non_king(pos, target) ==
  gen_pawn_moves(pos, target, [from \in Squares, to \in Squares |-> TRUE])
    (+) StepperGenMoves("Knight", pos, target)
    (+) SliderGenMoves("Bishop", pos, target)
    (+) SliderGenMoves("Rook", pos, target)
    (+) SliderGenMoves("Queen", pos, target)

gen_safe_non_king(pos, target, king) ==
  LET blockers == slider_blockers(pos.board, them(pos), king) IN
  gen_pawn_moves(pos, target,
                 [from \in Squares, to \in Squares |->
                    from \notin blockers \/ aligned(from, to, king)])
    (+) KnightGenSafeMoves(pos, target, blockers)
    (+) SliderGenSafeMoves("Bishop", pos, target, king, blockers)
    (+) SliderGenSafeMoves("Rook", pos, target, king, blockers)
    (+) SliderGenSafeMoves("Queen", pos, target, king, blockers)

gen_safe_king(pos, target) ==
  SetToBag(UNION {{Normal("King", from, role_at(pos.board, to), to, None) :
                     to \in {t \in king_attacks(from) \cap target :
                               attacks_to(pos.board, t, Not(pos.turn),
                                          occupied(pos.board)) = {}}} :
                  from \in our(pos, "King")})

\* evasions without the squares behind the king on a checking slider's ray.
evasions_without_rays(pos, king, checkers_) ==
  LET single == single_square(checkers_)
  IN gen_safe_king(pos, Squares \ us(pos))
       (+) (IF single # {}
            THEN LET checker == CHOOSE c \in single : TRUE
                 IN gen_safe_non_king(pos, between(king, checker) \cup {checker}, king)
            ELSE NoMoves)

evasions(pos, king, checkers_) ==
  LET sliders_ == checkers_ \cap sliders(pos.board)
      attacked == UNION {Xor(ray(checker, king), {checker}) : checker \in sliders_}
      single == single_square(checkers_)
  IN gen_safe_king(pos, (Squares \ us(pos)) \ attacked)
       (+) (IF single # {}
            THEN LET checker == CHOOSE c \in single : TRUE
                 IN gen_safe_non_king(pos, between(king, checker) \cup {checker}, king)
            ELSE NoMoves)

gen_castling_moves(pos, king) ==
  LET turn == pos.turn
      ok(rook) ==
        LET king_to == IF king < rook THEN fold(turn, SQ.g1, SQ.g8) ELSE fold(turn, SQ.c1, SQ.c8)
            rook_to == IF king < rook THEN fold(turn, SQ.f1, SQ.f8) ELSE fold(turn, SQ.d1, SQ.d8)
            king_path == between(king, king_to) \cup {king_to}
            rook_path == between(rook, rook_to) \cup {rook_to}
        IN /\ Xor(Xor(occupied(pos.board), {king}), {rook}) \cap (king_path \cup rook_path) = {}
           /\ \A sq \in king_path \cup {king} :
                king_attackers(pos, sq, Not(turn), Xor(occupied(pos.board), {king})) = {}
           /\ ~ castling_uncovers_rank_attack(pos, rook, king_to)
  IN SetToBag({Castle(king, rook) :
                 rook \in {r \in castling_rights(pos) \cap relative_rank(turn, 0) : ok(r)}})

gen_standard(pos, ep_square) ==
  LET our_king == first(our(pos, "King")) IN
  gen_en_passant(pos.board, pos.turn, ep_square, our_king) (+)
  (IF our_king # {}
   THEN LET king == CHOOSE k \in our_king : TRUE
            checkers_ == checkers(pos)
        IN IF checkers_ = {}
           THEN LET target == Squares \ us(pos)
                IN gen_safe_non_king(pos, target, king)
                     (+) gen_safe_king(pos, target)
                     (+) gen_castling_moves(pos, king)
           ELSE evasions(pos, king, checkers_)
   ELSE gen_non_king(pos, Squares \ us(pos)))

(***************************************************************************)
(* Variant rules: variant end, legal moves, material, outcome.             *)
(***************************************************************************)
RacingKingsIsVariantEnd(pos) ==
  LET in_goal == pos.board.kings \cap Rank(7)
      black_king == first(by_piece(pos.board, Piece(Black, "King")))
  IN IF in_goal = {} THEN FALSE
     ELSE IF is_white(pos.turn) \/ (in_goal \cap pos.board.black) # {} THEN TRUE
     ELSE ~ \E k \in black_king :
              \E target \in king_attacks(k) \cap Rank(7) :
                king_attackers(pos, target, White, occupied(pos.board)) = {}

Decisive(winner) == [kind |-> "Decisive", winner |-> winner]
Draw == [kind |-> "Draw"]

is_variant_end(pos) ==
  CASE pos.variant = "KingOfTheHill" -> (pos.board.kings \cap HILL) # {}
    [] pos.variant = "Giveaway" -> pos.board.white = {} \/ pos.board.black = {}
    [] pos.variant = "ThreeCheck" ->
         pos.remaining_checks[White] = 0 \/ pos.remaining_checks[Black] = 0
    [] pos.variant = "Horde" -> pos.board.white = {} \/ pos.board.black = {}
    [] pos.variant = "Atomic" ->
         \E color \in Colors : by_piece(pos.board, Piece(color, "King")) = {}
    [] pos.variant = "RacingKings" -> RacingKingsIsVariantEnd(pos)
    [] OTHER -> FALSE

\* Crazyhouse::legal_put_squares that does not look at the checkers
legal_put_squares_unchecked(pos) == Squares \ occupied(pos.board)
legal_put_squares(pos) ==
  LET checkers_ == checkers(pos) IN
  IF checkers_ = {} THEN Squares \ occupied(pos.board)
  ELSE IF single_square(checkers_) # {}
       THEN between(CHOOSE c \in checkers_ : TRUE,
                    CHOOSE k \in first(our(pos, "King")) : TRUE)
       ELSE {}

\* Crazyhouse::legal_moves, `standard` being what gen_standard pushed.
CrazyhouseLegalMoves(pos, standard) ==
  standard
    (+) SetToBag(UNION {{Put(role, to) :
                           role \in {r \in {"Knight", "Bishop", "Rook", "Queen"} :
                                       pockets_by_piece(pos.pockets, Piece(pos.turn, r)) > 0}}
                          \cup (IF 0 < rank(to) /\ rank(to) < 7
                                     /\ pos.pockets[pos.turn]["Pawn"] > 0
                                THEN {Put("Pawn", to)} ELSE {}) :
                        to \in legal_put_squares(pos)})

\* Giveaway::legal_moves with the captures and the other moves side by side.
GiveawayLegalMovesFree(pos) ==
  LET target == Squares \ us(pos) IN
  gen_en_passant(pos.board, pos.turn, pos.ep_square, {})
    (+) gen_non_king(pos, target)
    (+) StepperGenMoves("King", pos, target)
    (+) BagSum({gen_castling_moves(pos, king) : king \in king_of(pos.board, pos.turn)})

GiveawayLegalMoves(pos) ==
  LET them_ == them(pos)
      captures == gen_en_passant(pos.board, pos.turn, pos.ep_square, {})
                    (+) gen_non_king(pos, them_)
                    (+) StepperGenMoves("King", pos, them_)
      empty == Squares \ occupied(pos.board)
  IN IF ~ is_empty(captures) THEN captures
     ELSE gen_non_king(pos, empty)
            (+) StepperGenMoves("King", pos, empty)
            (+) BagSum({gen_castling_moves(pos, king) : king \in king_of(pos.board, pos.turn)})

\* The filter of Atomic::legal_moves without the case of the other king gone.
AtomicKingSafeWhileOtherKing(pos, after) ==
  /\ king_of(after.board, pos.turn) # {}
  /\ king_attackers(after, CHOOSE k \in king_of(after.board, pos.turn) : TRUE,
                    Not(pos.turn), occupied(after.board)) = {}

AtomicKingSafe(pos, after) ==
  /\ king_of(after.board, pos.turn) # {}
  /\ \/ by_piece(after.board, Piece(Not(pos.turn), "King")) = {}
     \/ king_attackers(after, CHOOSE k \in king_of(after.board, pos.turn) : TRUE,
                       Not(pos.turn), occupied(after.board)) = {}

AtomicKeeps(pos, m) == AtomicKingSafe(pos, AtomicPlayUnchecked(pos, m))

AtomicLegalMoves(pos) ==
  LET pseudo == gen_en_passant(pos.board, pos.turn, pos.ep_square, {})
                  (+) gen_non_king(pos, Squares \ us(pos))
                  (+) StepperGenMoves("King", pos, Squares \ occupied(pos.board))
                  (+) BagSum({gen_castling_moves(pos, king) :
                                king \in king_of(pos.board, pos.turn)})
  IN swap_retain(pseudo, [m \in Moves |-> AtomicKeeps(pos, m)])

\* RacingKings::legal_moves without the filter on moves that give check.
RacingKingsLegalMovesUnfiltered(pos, standard) ==
  IF ~ is_variant_end(pos) THEN standard ELSE NoMoves

\* RacingKings::legal_moves, `standard` being what gen_standard pushes.
RacingKingsLegalMoves(pos, standard) ==
  swap_retain(IF ~ is_variant_end(pos) THEN standard ELSE NoMoves,
              [m \in Moves |-> checkers(RacingKingsPlayUnchecked(pos, m)) = {}])

\* The legal_moves of the variants that build on gen_standard.
StandardLegalMoves(pos, standard) ==
  CASE pos.variant = "Crazyhouse" -> CrazyhouseLegalMoves(pos, standard)
    [] pos.variant \in {"KingOfTheHill", "ThreeCheck"} ->
         IF ~ is_variant_end(pos) THEN standard ELSE NoMoves
    [] pos.variant = "RacingKings" -> RacingKingsLegalMoves(pos, standard)
    [] OTHER -> standard

legal_moves(pos) ==
  CASE pos.variant = "Giveaway" -> GiveawayLegalMoves(pos)
    [] pos.variant = "Atomic" -> AtomicLegalMoves(pos)
    [] OTHER -> StandardLegalMoves(pos, gen_standard(pos, pos.ep_square))

\* A legality test that looks at the move alone and not at the legal moves.
is_legal_unlisted(pos, m) ==
  m.kind = "Normal" /\ m.from \in us(pos) /\ m.to \notin us(pos)

is_legal(pos, m) == contains(legal_moves(pos), m)

\* is_zeroing without the pawn moves.
is_zeroing_captures_only(pos, m) ==
  IF pos.variant = "Crazyhouse" THEN FALSE
  ELSE \/ m.kind = "Normal" /\ m.capture # None
       \/ m.kind = "EnPassant"

is_zeroing(pos, m) ==
  IF pos.variant = "Crazyhouse" THEN FALSE
  ELSE \/ m.kind = "Normal" /\ m.capture # None
       \/ m.kind = "Normal" /\ m.role = "Pawn"
       \/ m.kind = "EnPassant"

ChessInsufficientMaterial(board) ==
  IF board.pawns # {} \/ rooks_and_queens(board) # {} THEN FALSE
  ELSE IF Cardinality(occupied(board)) < 3 THEN TRUE
  ELSE IF board.knights # {} THEN FALSE
  ELSE IF board.bishops \cap DARK_SQUARES = {} THEN TRUE
  ELSE IF board.bishops \cap LIGHT_SQUARES = {} THEN TRUE
  ELSE FALSE

GiveawayInsufficientMaterial(board) ==
  IF board.knights # {} \/ rooks_and_queens(board) # {} \/ board.kings # {} THEN FALSE
  ELSE IF board.pawns # {} THEN FALSE
  ELSE IF board.white \cap DARK_SQUARES = {} THEN board.black \cap LIGHT_SQUARES = {}
  ELSE IF board.white \cap LIGHT_SQUARES = {} THEN board.black \cap DARK_SQUARES = {}
  ELSE FALSE

AtomicInsufficientMaterial(pos) ==
  LET board == pos.board
      white_bishops == by_piece(board, Piece(White, "Bishop"))
      black_bishops == by_piece(board, Piece(Black, "Bishop"))
  IN IF is_variant_end(pos) THEN FALSE
     ELSE IF board.pawns # {} \/ board.queens # {} THEN FALSE
     ELSE IF Cardinality(board.knights \cup board.bishops \cup board.rooks) = 1 THEN TRUE
     ELSE IF occupied(board) = board.kings \cup board.knights
          THEN Cardinality(board.knights) <= 2
     ELSE IF occupied(board) = board.kings \cup board.bishops
               /\ white_bishops \cap DARK_SQUARES = {}
          THEN black_bishops \cap LIGHT_SQUARES = {}
     ELSE IF occupied(board) = board.kings \cup board.bishops
               /\ white_bishops \cap LIGHT_SQUARES = {}
          THEN black_bishops \cap DARK_SQUARES = {}
     ELSE FALSE

is_insufficient_material(pos) ==
  CASE pos.variant = "Chess" -> ChessInsufficientMaterial(pos.board)
    [] pos.variant = "Giveaway" -> GiveawayInsufficientMaterial(pos.board)
    [] pos.variant = "ThreeCheck" -> occupied(pos.board) = pos.board.kings
    [] pos.variant = "Atomic" -> AtomicInsufficientMaterial(pos)
    [] OTHER -> FALSE

is_checkmate(pos) ==
  IF checkers(pos) = {} THEN FALSE ELSE is_empty(legal_moves(pos))

is_stalemate(pos) ==
  IF checkers(pos) # {} \/ is_variant_end(pos) THEN FALSE
  ELSE is_empty(legal_moves(pos))

is_game_over(pos) == is_empty(legal_moves(pos)) \/ is_insufficient_material(pos)

\* Option<Outcome>: a set of at most one outcome.
\* ThreeCheck::variant_outcome naming the side that still has checks to give.
ThreeCheckVariantOutcomeOpponent(pos) ==
  IF pos.remaining_checks[White] = 0 THEN {Decisive(Black)}
  ELSE IF pos.remaining_checks[Black] = 0 THEN {Decisive(White)}
  ELSE {}

ThreeCheckVariantOutcome(pos) ==
  IF pos.remaining_checks[White] = 0 THEN {Decisive(White)}
  ELSE IF pos.remaining_checks[Black] = 0 THEN {Decisive(Black)}
  ELSE {}

variant_outcome(pos) ==
  CASE pos.variant = "KingOfTheHill" ->
         IF by_piece(pos.board, Piece(White, "King")) \cap HILL # {} THEN {Decisive(White)}
         ELSE IF by_piece(pos.board, Piece(Black, "King")) \cap HILL # {}
              THEN {Decisive(Black)}
         ELSE {}
    [] pos.variant = "Giveaway" ->
         IF us(pos) = {} \/ is_stalemate(pos) THEN {Decisive(pos.turn)} ELSE {}
    [] pos.variant = "ThreeCheck" -> ThreeCheckVariantOutcome(pos)
    [] pos.variant = "Horde" ->
         IF pos.board.black = {} THEN {Decisive(White)}
         ELSE IF pos.board.white = {} THEN {Decisive(Black)}
         ELSE {}
    [] pos.variant = "Atomic" ->
         IF by_piece(pos.board, Piece(White, "King")) = {} THEN {Decisive(Black)}
         ELSE IF by_piece(pos.board, Piece(Black, "King")) = {} THEN {Decisive(White)}
         ELSE {}
    [] pos.variant = "RacingKings" ->
         LET in_goal == pos.board.kings \cap Rank(7) IN
         IF is_variant_end(pos)
         THEN IF in_goal \cap pos.board.white # {} /\ in_goal \cap pos.board.black # {}
              THEN {Draw}
              ELSE IF in_goal \cap pos.board.white # {} THEN {Decisive(White)}
              ELSE {Decisive(Black)}
         ELSE {}
    [] OTHER -> {}

\* Option::or_else
or_else(option, alternative) == IF option # {} THEN option ELSE alternative

outcome(pos) ==
  or_else(variant_outcome(pos),
          IF is_checkmate(pos) THEN {Decisive(Not(pos.turn))}
          ELSE IF is_stalemate(pos) \/ is_insufficient_material(pos) THEN {Draw}
          ELSE {})

(***************************************************************************)
(* SAN candidates and en passant relevance.                                *)
(***************************************************************************)
filter_san_candidates(role, to, moves) ==
  swap_retain(moves,
    [m \in Moves |-> CASE m.kind \in {"Normal", "Put"} -> to = m.to /\ role = m.role
                       [] m.kind = "Castle" -> role = "King" /\ to = m.rook
                       [] m.kind = "EnPassant" -> role = "Pawn" /\ m.to = to])

\* Position::san_candidates, the default of the trait.
DefaultSanCandidates(pos, role, to) == filter_san_candidates(role, to, legal_moves(pos))

\* Chess::san_candidates.
ChessSanCandidates(pos, role, to) ==
  LET our_king == first(our(pos, "King"))
      king == CHOOSE k \in our_king : TRUE
      checkers_ == checkers(pos)
  IN IF checkers_ = {}
     THEN LET target == (Squares \ us(pos)) \cap {to}
              blockers == slider_blockers(pos.board, them(pos), king)
          IN CASE role = "Pawn" ->
                    gen_en_passant(pos.board, pos.turn, pos.ep_square, our_king)
                      (+) gen_pawn_moves(pos, target,
                            [from \in Squares, t \in Squares |->
                               from \notin blockers \/ aligned(from, t, king)])
               [] role = "Knight" -> KnightGenSafeMoves(pos, target, blockers)
               [] role \in {"Bishop", "Rook", "Queen"} ->
                    SliderGenSafeMoves(role, pos, target, king, blockers)
               [] role = "King" ->
                    gen_safe_king(pos, target) (+) gen_castling_moves(pos, king)
     ELSE filter_san_candidates(role, to,
            gen_en_passant(pos.board, pos.turn, pos.ep_square, our_king)
              (+) evasions(pos, king, checkers_))

san_candidates(pos, role, to) ==
  IF pos.variant = "Chess" THEN ChessSanCandidates(pos, role, to)
  ELSE DefaultSanCandidates(pos, role, to)

is_relevant_ep(pos, ep_square) ==
  IF is_empty(gen_en_passant(pos.board, pos.turn, {ep_square}, {})) THEN FALSE
  ELSE \E m \in DOMAIN legal_moves(pos) : m.kind = "EnPassant" /\ m.to = ep_square

\* The stored en passant square, unfiltered.
ep_square_stored(pos) == pos.ep_square

\* Setup::ep_square of a position: the stored square, if relevant.
ep_square(pos) == {s \in pos.ep_square : is_relevant_ep(pos, s)}

(***************************************************************************)
(* Setup validation and from_setup.                                        *)
(***************************************************************************)
NoError == "None"
OrElse(e1, e2) == IF e1 # NoError THEN e1 ELSE e2

\* setup::clean_castling_rights(setup, strict = false): per colour, the
\* outermost rooks with a right on either side of a king on its back rank.
clean_castling_rights(pos) ==
  LET castling == castling_rights(pos) \cap pos.board.rooks
      clean_loose(color) ==
        LET k == king_of(pos.board, color) IN
        IF k = {} THEN {}
        ELSE LET king == CHOOSE x \in k : TRUE
                 side == castling \cap by_color(pos.board, color) \cap relative_rank(color, 0)
             IN IF file(king) = 0 \/ file(king) = 7 \/ rank(king) # fold(color, 0, 7)
                THEN {}
                ELSE {r \in first(side) : file(r) < file(king)}
                       \cup {r \in last(side) : file(king) < file(r)}
  IN clean_loose(White) \cup clean_loose(Black)

\* The body of validate_ep for the en passant square ep that pos.ep_square()
\* returned.
validate_ep_square(pos, ep) ==
  IF ep = {} THEN NoError
  ELSE LET sq == CHOOSE x \in ep : TRUE
           fifth_rank_sq == sq + fold(pos.turn, -8, 8)
           seventh_rank_sq == sq + fold(pos.turn, 8, -8)
       IN IF sq \notin relative_rank(pos.turn, 5) THEN "InvalidEpSquare"
          ELSE IF fifth_rank_sq \notin their(pos, "Pawn") THEN "InvalidEpSquare"
          ELSE IF sq \in occupied(pos.board) \/ seventh_rank_sq \in occupied(pos.board)
               THEN "InvalidEpSquare"
          ELSE NoError

validate_ep(pos) == validate_ep_square(pos, ep_square(pos))

HasPockets(variant) == variant = "Crazyhouse"

validate_basic(pos) ==
  LET board == pos.board IN
  IF occupied(board) = {} THEN "Empty"
  ELSE IF HasPockets(pos.variant)
          /\ Cardinality(board.pawns) + pos.pockets[White]["Pawn"]
               + pos.pockets[Black]["Pawn"] > 16
       THEN "TooManyPawns"
  ELSE IF HasPockets(pos.variant)
          /\ Cardinality(occupied(board)) + pockets_count(pos.pockets) > 32
       THEN "TooManyPieces"
  ELSE IF ~ HasPockets(pos.variant) /\ Cardinality(board.white) > 16 THEN "TooManyPieces"
  ELSE IF ~ HasPockets(pos.variant)
          /\ Cardinality(by_piece(board, Piece(White, "Pawn"))) > 8
       THEN "TooManyPawns"
  ELSE IF ~ HasPockets(pos.variant) /\ Cardinality(board.black) > 16 THEN "TooManyPieces"
  ELSE IF ~ HasPockets(pos.variant)
          /\ Cardinality(by_piece(board, Piece(Black, "Pawn"))) > 8
       THEN "TooManyPawns"
  ELSE IF board.pawns \cap (Rank(0) \cup Rank(7)) # {} THEN "PawnsOnBackrank"
  ELSE IF clean_castling_rights(pos) # castling_rights(pos) THEN "BadCastlingRights"
  ELSE validate_ep(pos)

validate_kings(pos) ==
  LET board == pos.board
      their_king == king_of(board, Not(pos.turn))
  IN IF by_piece(board, Piece(White, "King")) \ board.promoted = {} THEN "NoKing White"
     ELSE IF by_piece(board, Piece(Black, "King")) \ board.promoted = {} THEN "NoKing Black"
     ELSE IF Cardinality(board.kings) > 2 THEN "TooManyKings"
     ELSE IF \E k \in their_king :
               king_attackers(pos, k, pos.turn, occupied(board)) # {}
          THEN "OppositeCheck"
     ELSE NoError

\* The checks of Horde::from_setup; ep_error is the result of its final
\* validate_ep(&pos).
HordeValidate(pos, ep_error) ==
  LET board == pos.board IN
  IF occupied(board) = {} THEN "Empty"
  ELSE IF by_piece(board, Piece(Black, "King")) = {} THEN "NoKing Black"
  ELSE IF Cardinality(board.kings) > 1 THEN "TooManyKings"
  ELSE IF Cardinality(board.black) > 16 THEN "TooManyPieces"
  ELSE IF Cardinality(board.white) > 36 THEN "TooManyPieces"
  ELSE IF Cardinality(by_piece(board, Piece(Black, "Pawn"))) > 8 THEN "TooManyPawns"
  ELSE IF Cardinality(by_piece(board, Piece(White, "Pawn"))) > 36 THEN "TooManyPawns"
  ELSE IF \E color \in Colors :
            by_piece(board, Piece(color, "Pawn")) \cap relative_rank(color, 7) # {}
       THEN "PawnsOnBackrank"
  ELSE IF castling_rights(pos) # clean_castling_rights(pos) \cap Rank(7)
       THEN "BadCastlingRights"
  ELSE ep_error

\* The checks of Atomic::from_setup; basic is the result of its final
\* validate_basic(&pos).
AtomicValidate(pos, basic) ==
  LET their_king == king_of(pos.board, Not(pos.turn)) IN
  IF Cardinality(pos.board.kings) > 2 THEN "TooManyKings"
  ELSE IF their_king = {} THEN fold(pos.turn, "NoKing Black", "NoKing White")
  ELSE IF \E k \in their_king :
            king_attackers(pos, k, pos.turn, occupied(pos.board)) # {}
       THEN "OppositeCheck"
  ELSE basic

RacingKingsMaterial(pos) ==
  IF pos.board.pawns # {} THEN "RacingKingsMaterial"
  ELSE IF \E color \in Colors :
            \/ Cardinality(by_piece(pos.board, Piece(color, "Knight"))) > 2
            \/ Cardinality(by_piece(pos.board, Piece(color, "Bishop"))) > 2
            \/ Cardinality(by_piece(pos.board, Piece(color, "Rook"))) > 2
            \/ Cardinality(by_piece(pos.board, Piece(color, "Queen"))) > 1
       THEN "RacingKingsMaterial"
  ELSE NoError

\* The checks of RacingKings::from_setup; basic is the result of its
\* validate_basic(&pos).
RacingKingsValidate(setup, pos, basic) ==
  IF setup.castling_rights # {} THEN "BadCastlingRights"
  ELSE IF checkers(pos) # {} THEN "RacingKingsCheck"
  ELSE IF is_black(pos.turn)
          /\ by_piece(pos.board, Piece(Black, "King")) \cap Rank(7) # {}
          /\ by_piece(pos.board, Piece(White, "King")) \cap Rank(7) # {}
       THEN "RacingKingsOver"
  ELSE OrElse(OrElse(basic, validate_kings(pos)), RacingKingsMaterial(pos))

\* The position a variant's from_setup builds from a setup, before validation.
PositionOf(variant, setup) ==
  [variant |-> variant,
   board |-> setup.board,
   pockets |-> IF variant = "Crazyhouse" /\ setup.pockets # {}
               THEN CHOOSE p \in setup.pockets : TRUE ELSE PocketsDefault,
   turn |-> setup.turn,
   castling_rights |-> IF variant = "RacingKings" THEN {} ELSE setup.castling_rights,
   ep_square |-> setup.ep_square,
   remaining_checks |-> IF variant = "ThreeCheck" /\ setup.remaining_checks # {}
                        THEN CHOOSE c \in setup.remaining_checks : TRUE
                        ELSE RemainingChecksDefault,
   halfmove_clock |-> setup.halfmove_clock,
   fullmoves |-> setup.fullmoves]

\* The checks of each variant's from_setup on the position it built; basic
\* and ep_error are the results of validate_basic(&pos) and validate_ep(&pos).
from_setup_checks(variant, setup, pos, basic, ep_error) ==
  CASE variant = "Giveaway" -> basic
    [] variant = "ThreeCheck" ->
         IF pos.remaining_checks[White] = 0 /\ pos.remaining_checks[Black] = 0
         THEN "ThreeCheckOver"
         ELSE OrElse(basic, validate_kings(pos))
    [] variant = "Horde" -> HordeValidate(pos, ep_error)
    [] variant = "Atomic" -> AtomicValidate(pos, basic)
    [] variant = "RacingKings" -> RacingKingsValidate(setup, pos, basic)
    [] OTHER -> OrElse(basic, validate_kings(pos))

\* The PositionError of from_setup, or NoError when the setup is accepted.
from_setup_error(variant, setup) ==
  from_setup_checks(variant, setup, PositionOf(variant, setup),
                    validate_basic(PositionOf(variant, setup)),
                    validate_ep(PositionOf(variant, setup)))

(***************************************************************************)
(* Characters of pieces and roles (Piece::from_char, Piece::char,          *)
(* Role::from_char, Role::char).  A character is a string of length one.   *)
(***************************************************************************)
RoleOfChar ==
  [p |-> "Pawn", n |-> "Knight", b |-> "Bishop", r |-> "Rook", q |-> "Queen", k |-> "King"]
CharOfRole ==
  [Pawn |-> "p", Knight |-> "n", Bishop |-> "b", Rook |-> "r", Queen |-> "q", King |-> "k"]
UpperOf ==
  [a |-> "A", b |-> "B", c |-> "C", d |-> "D", e |-> "E", f |-> "F", g |-> "G",
   h |-> "H", i |-> "I", j |-> "J", k |-> "K", l |-> "L", m |-> "M", n |-> "N",
   o |-> "O", p |-> "P", q |-> "Q", r |-> "R", s |-> "S", t |-> "T", u |-> "U",
   v |-> "V", w |-> "W", x |-> "X", y |-> "Y", z |-> "Z"]
LowerOf ==
  [A |-> "a", B |-> "b", C |-> "c", D |-> "d", E |-> "e", F |-> "f", G |-> "g",
   H |-> "h", I |-> "i", J |-> "j", K |-> "k", L |-> "l", M |-> "m", N |-> "n",
   O |-> "o", P |-> "p", Q |-> "q", R |-> "r", S |-> "s", T |-> "t", U |-> "u",
   V |-> "v", W |-> "w", X |-> "x", Y |-> "y", Z |-> "z"]

role_from_char(ch) == IF ch \in DOMAIN RoleOfChar THEN {RoleOfChar[ch]} ELSE {}
role_char(role) == CharOfRole[role]
to_ascii_uppercase(ch) == IF ch \in DOMAIN UpperOf THEN UpperOf[ch] ELSE ch
to_ascii_lowercase(ch) == IF ch \in DOMAIN LowerOf THEN LowerOf[ch] ELSE ch
piece_from_char(ch) ==
  IF ch \in DOMAIN RoleOfChar THEN {Piece(Black, RoleOfChar[ch])}
  ELSE IF ch \in DOMAIN LowerOf /\ LowerOf[ch] \in DOMAIN RoleOfChar
  THEN {Piece(White, RoleOfChar[LowerOf[ch]])}
  ELSE {}
piece_char(piece) ==
  IF piece.color = White THEN UpperOf[CharOfRole[piece.role]] ELSE CharOfRole[piece.role]

(***************************************************************************)
(* UCI moves.  A string is a sequence of characters; a Result<T, ()> is a  *)
(* set holding the value, or the empty set for Err.                        *)
(***************************************************************************)
FileChars == <<"a", "b", "c", "d", "e", "f", "g", "h">>
RankChars == <<"1", "2", "3", "4", "5", "6", "7", "8">>

square_to_string(sq) == <<FileChars[file(sq) + 1], RankChars[rank(sq) + 1]>>
square_from_str(str) ==
  IF Len(str) # 2 THEN {}
  ELSE {sq \in Squares : FileChars[file(sq) + 1] = str[1] /\ RankChars[rank(sq) + 1] = str[2]}

UciNormal(from, to, promotion) ==
  [kind |-> "Normal", from |-> from, to |-> to, promotion |-> promotion]
UciPut(role, to) == [kind |-> "Put", role |-> role, to |-> to]
UciNull == [kind |-> "Null"]

\* impl FromStr for Uci.
uci_from_str(uci) ==
  IF Len(uci) < 4 \/ Len(uci) > 5 THEN {}
  ELSE LET from == square_from_str(SubSeq(uci, 1, 2))
           to == square_from_str(SubSeq(uci, 3, 4))
       IN IF from # {} /\ to # {} /\ Len(uci) = 5
          THEN {UciNormal(f, t, r) : f \in from, t \in to, r \in role_from_char(uci[5])}
          ELSE IF from # {} /\ to # {}
          THEN {UciNormal(f, t, None) : f \in from, t \in to}
          ELSE IF uci[2] = "@" /\ to # {}
          THEN {UciPut(r, t) : r \in role_from_char(to_ascii_lowercase(uci[1])), t \in to}
          ELSE IF uci = <<"0", "0", "0", "0">> THEN {UciNull}
          ELSE {}

\* impl fmt::Display for Uci.
uci_to_string(uci) ==
  CASE uci.kind = "Normal" /\ uci.promotion = None ->
         square_to_string(uci.from) \o square_to_string(uci.to)
    [] uci.kind = "Normal" /\ uci.promotion # None ->
         square_to_string(uci.from) \o square_to_string(uci.to)
           \o <<role_char(uci.promotion)>>
    [] uci.kind = "Put" ->
         <<to_ascii_uppercase(role_char(uci.role)), "@">> \o square_to_string(uci.to)
    [] uci.kind = "Null" -> <<"0", "0", "0", "0">>

\* impl Into<Uci> for &Move.
into_uci(m) ==
  CASE m.kind = "Normal" -> UciNormal(m.from, m.to, m.promotion)
    [] m.kind = "EnPassant" -> UciNormal(m.from, m.to, None)
    [] m.kind = "Castle" -> UciNormal(m.king, m.rook, None)
    [] m.kind = "Put" -> UciPut(m.role, m.to)
    [] m.kind = "Null" -> UciNull

\* The candidate move Uci::to_move builds before it asks is_legal; empty when
\* the from square holds no piece.
uci_candidate(uci, pos) ==
  CASE uci.kind = "Normal" ->
         LET role == role_at(pos.board, uci.from) IN
         IF role = None THEN {}
         ELSE IF role = "King" /\ uci.to \in castling_rights(pos)
         THEN {Castle(uci.from, uci.to)}
         ELSE IF role = "King" /\ uci.from = fold(pos.turn, SQ.e1, SQ.e8)
                 /\ rank(uci.to) = fold(pos.turn, 0, 7)
                 /\ distance(uci.from, uci.to) = 2
         THEN IF file(uci.from) < file(uci.to)
              THEN {Castle(uci.from, fold(pos.turn, SQ.h1, SQ.h8))}
              ELSE {Castle(uci.from, fold(pos.turn, SQ.a1, SQ.a8))}
         ELSE {Normal(role, uci.from, role_at(pos.board, uci.to), uci.to, uci.promotion)}
    [] uci.kind = "Put" -> {Put(uci.role, uci.to)}

\* Uci::to_move.
to_move(uci, pos) ==
  IF uci.kind = "Null" THEN {Null}
  ELSE {c \in uci_candidate(uci, pos) : is_legal(pos, c)}

(***************************************************************************)
(* Board FEN.  The writer visits the ranks from 8 down to 1; the parser    *)
(* keeps a cursor (file, rank) in i8 arithmetic and a pending promoted     *)
(* flag.                                                                   *)
(***************************************************************************)
DigitChars == <<"0", "1", "2", "3", "4", "5", "6", "7", "8", "9">>
to_digit(ch) == {d \in 0 .. 9 : DigitChars[d + 1] = ch}
from_digit(d) == DigitChars[d + 1]
I8Min == -128
I8Max == 127

RECURSIVE board_fen_from(_, _, _, _)
board_fen_from(board, promoted, i, empty) ==
  IF i = 64 THEN <<>>
  ELSE LET f == i % 8
           r == 7 - (i \div 8)
           square == r * 8 + f
           piece == piece_at(board, square)
           before == IF f = 0 THEN 0 ELSE empty
           placed ==
             IF piece = {} THEN <<>>
             ELSE (IF before > 0 THEN <<from_digit(before)>> ELSE <<>>)
                    \o <<piece_char(CHOOSE p \in piece : TRUE)>>
                    \o (IF promoted /\ square \in board.promoted THEN <<"~">> ELSE <<>>)
           after == IF piece = {} THEN before + 1 ELSE 0
           tail == (IF f = 7 /\ after > 0 THEN <<from_digit(after)>> ELSE <<>>)
                     \o (IF f = 7 /\ r > 0 THEN <<"/">> ELSE <<>>)
       IN placed \o tail \o board_fen_from(board, promoted, i + 1, after)

\* fen::board_fen(board, opts) with opts.promoted = promoted.
board_fen(board, promoted) == board_fen_from(board, promoted, 0, 0)

\* One iteration of the loop of Board::from_str over the character ch.
board_from_str_step(st, ch) ==
  LET checked(next) == IF next.promoted THEN [next EXCEPT !.ok = FALSE] ELSE next IN
  IF ~st.ok THEN st
  ELSE IF ch = "/"
  THEN checked([st EXCEPT !.file = 0, !.rank = Max2(st.rank - 1, I8Min)])
  ELSE IF ch = "~" THEN [st EXCEPT !.promoted = TRUE]
  ELSE IF to_digit(ch) # {}
  THEN checked([st EXCEPT !.file = -Max2(-(st.file + (CHOOSE d \in to_digit(ch) : TRUE)),
                                         -I8Max)])
  ELSE IF piece_from_char(ch) # {}
  THEN IF from_coords(st.file, st.rank) = {} THEN [st EXCEPT !.ok = FALSE]
       ELSE checked([st EXCEPT
              !.board = set_piece_at(st.board,
                                     CHOOSE sq \in from_coords(st.file, st.rank) : TRUE,
                                     CHOOSE p \in piece_from_char(ch) : TRUE,
                                     st.promoted),
              !.promoted = FALSE,
              !.file = st.file + 1])
  ELSE [st EXCEPT !.ok = FALSE]

RECURSIVE board_from_str_loop(_, _, _)
board_from_str_loop(st, str, i) ==
  IF i > Len(str) THEN st
  ELSE board_from_str_loop(board_from_str_step(st, str[i]), str, i + 1)

\* impl FromStr for Board: the parsed board, or the empty set for
\* Err(InvalidBoard).
board_from_str(str) ==
  LET st == board_from_str_loop(
              [board |-> EmptyBoard, rank |-> 7, file |-> 0, promoted |-> FALSE, ok |-> TRUE],
              str, 1)
  IN IF st.ok THEN {st.board} ELSE {}

\* Option<Square>::map_or("-", |sq| sq.to_string())
square_or_dash(option) ==
  IF option = {} THEN <<"-">> ELSE square_to_string(CHOOSE sq \in option : TRUE)

\* The en passant field of fen::epd.
epd_ep_square(pos) == square_or_dash(ep_square(pos))

(***************************************************************************)
(* Setups handed to from_setup.  A board is given as the list of its       *)
(* pieces, each a piece character and a square.                            *)
(***************************************************************************)
RECURSIVE BoardOf(_)
BoardOf(places) ==
  IF places = <<>> THEN EmptyBoard
  ELSE set_piece_at(BoardOf(Tail(places)), Head(places)[2],
                    CHOOSE p \in piece_from_char(Head(places)[1]) : TRUE, FALSE)

SetupOf(places, turn, castling, ep) ==
  [board |-> BoardOf(places), pockets |-> {}, turn |-> turn,
   castling_rights |-> castling, ep_square |-> ep, remaining_checks |-> {},
   halfmove_clock |-> U32(0, 0), fullmoves |-> U32(0, 1)]

WithClock(setup, halfmove_clock) == [setup EXCEPT !.halfmove_clock = halfmove_clock]

Input(variant, setup) == [variant |-> variant, setup |-> setup]

ChessInputs ==
  {Input("Chess", s) : s \in {
     \* a rook checks along the e-file: the king may not step back along it
     SetupOf(<<<<"K", SQ.e4>>, <<"r", SQ.e8>>, <<"k", SQ.a8>>>>, White, {}, {}),
     \* a bishop checks along a diagonal; a knight can interpose or capture
     SetupOf(<<<<"K", SQ.d4>>, <<"N", SQ.g4>>, <<"b", SQ.g7>>, <<"k", SQ.a8>>>>, White, {}, {}),
     \* a rook pinned on a file
     SetupOf(<<<<"K", SQ.e1>>, <<"R", SQ.e2>>, <<"r", SQ.e8>>, <<"k", SQ.a8>>>>, White, {}, {}),
     \* a pawn pinned on a diagonal that can capture the pinning bishop
     SetupOf(<<<<"K", SQ.e1>>, <<"P", SQ.f2>>, <<"b", SQ.g3>>, <<"k", SQ.a8>>>>, White, {}, {}),
     \* a knight and a pawn pinned, one on a diagonal and one on a file
     SetupOf(<<<<"K", SQ.e1>>, <<"N", SQ.d2>>, <<"P", SQ.e3>>, <<"b", SQ.a5>>,
               <<"q", SQ.e7>>, <<"k", SQ.h8>>>>, White, {}, {}),
     \* en passant would open the fifth rank between king and rook
     SetupOf(<<<<"K", SQ.a5>>, <<"P", SQ.e5>>, <<"p", SQ.d5>>, <<"r", SQ.h5>>,
               <<"k", SQ.h8>>>>, White, {}, {SQ.d6}),
     \* the double push that leads to the position above
     SetupOf(<<<<"K", SQ.a5>>, <<"P", SQ.e5>>, <<"p", SQ.d7>>, <<"r", SQ.h5>>,
               <<"k", SQ.h8>>>>, Black, {}, {}),
     \* en passant would open the long diagonal
     SetupOf(<<<<"K", SQ.h1>>, <<"P", SQ.e5>>, <<"p", SQ.d5>>, <<"b", SQ.a8>>,
               <<"k", SQ.h8>>>>, White, {}, {SQ.d6}),
     \* en passant captures the checking pawn
     SetupOf(<<<<"K", SQ.e4>>, <<"P", SQ.e5>>, <<"P", SQ.c5>>, <<"p", SQ.d5>>,
               <<"k", SQ.h8>>>>, White, {}, {SQ.d6}),
     \* en passant is legal and the king is not in check
     SetupOf(<<<<"K", SQ.e1>>, <<"P", SQ.e5>>, <<"p", SQ.d5>>, <<"k", SQ.e8>>>>,
             White, {}, {SQ.d6}),
     \* the capturing pawn is pinned on the e-file
     SetupOf(<<<<"k", SQ.e8>>, <<"p", SQ.e4>>, <<"P", SQ.d4>>, <<"K", SQ.d1>>,
               <<"R", SQ.e1>>>>, Black, {}, {SQ.d3}),
     \* double check by rook and knight
     SetupOf(<<<<"K", SQ.e1>>, <<"B", SQ.c1>>, <<"r", SQ.e8>>, <<"n", SQ.f3>>,
               <<"k", SQ.a8>>>>, White, {}, {}),
     \* castling on both sides, the f-file attacked
     SetupOf(<<<<"K", SQ.e1>>, <<"R", SQ.a1>>, <<"R", SQ.h1>>, <<"k", SQ.e8>>,
               <<"r", SQ.f8>>>>, White, {SQ.a1, SQ.h1}, {}),
     \* castling on both sides for Black
     SetupOf(<<<<"K", SQ.e1>>, <<"k", SQ.e8>>, <<"r", SQ.a8>>, <<"r", SQ.h8>>>>,
             Black, {SQ.a8, SQ.h8}, {}),
     \* castling that exchanges king and rook, and a long way to the c-file
     SetupOf(<<<<"K", SQ.f1>>, <<"R", SQ.g1>>, <<"R", SQ.a1>>, <<"k", SQ.e8>>>>,
             White, {SQ.a1, SQ.g1}, {}),
     \* castling with the king next to the rook in the corner
     SetupOf(<<<<"K", SQ.e1>>, <<"k", SQ.b8>>, <<"r", SQ.a8>>, <<"r", SQ.h8>>>>,
             Black, {SQ.a8, SQ.h8}, {}),
     \* castling would leave the king on c1 open to the queen on a1
     SetupOf(<<<<"K", SQ.c1>>, <<"R", SQ.b1>>, <<"q", SQ.a1>>, <<"k", SQ.h8>>>>,
             White, {SQ.b1}, {}),
     \* a bishop of one's own and a knight of the other side in the way
     SetupOf(<<<<"K", SQ.e1>>, <<"R", SQ.a1>>, <<"R", SQ.h1>>, <<"B", SQ.f1>>,
               <<"n", SQ.b1>>, <<"k", SQ.e8>>>>, White, {SQ.a1, SQ.h1}, {}),
     \* en passant squares that no double push leaves: on the fourth rank, with
     \* no pawn in front, with a piece on the square, with a piece behind it;
     \* the second and the third once more with a pawn that attacks the square
     SetupOf(<<<<"K", SQ.e1>>, <<"k", SQ.e8>>>>, White, {}, {SQ.e4}),
     SetupOf(<<<<"K", SQ.e1>>, <<"k", SQ.e8>>>>, White, {}, {SQ.d6}),
     SetupOf(<<<<"K", SQ.e1>>, <<"p", SQ.d5>>, <<"n", SQ.d6>>, <<"k", SQ.e8>>>>,
             White, {}, {SQ.d6}),
     SetupOf(<<<<"K", SQ.e1>>, <<"p", SQ.d5>>, <<"n", SQ.d7>>, <<"k", SQ.e8>>>>,
             White, {}, {SQ.d6}),
     SetupOf(<<<<"K", SQ.e1>>, <<"P", SQ.e5>>, <<"k", SQ.e8>>>>, White, {}, {SQ.d6}),
     SetupOf(<<<<"K", SQ.e1>>, <<"P", SQ.e5>>, <<"p", SQ.d5>>, <<"n", SQ.d7>>,
               <<"k", SQ.e8>>>>, White, {}, {SQ.d6}),
     \* a king next to a rook that still has its castling right
     SetupOf(<<<<"K", SQ.b7>>, <<"k", SQ.e8>>, <<"r", SQ.a8>>>>, White, {SQ.a8}, {}),
     \* promotion by push and by capture
     SetupOf(<<<<"K", SQ.e1>>, <<"P", SQ.a7>>, <<"n", SQ.b8>>, <<"k", SQ.h7>>>>, White, {}, {}),
     \* stalemate, checkmate, bare kings
     SetupOf(<<<<"K", SQ.b6>>, <<"Q", SQ.c7>>, <<"k", SQ.a8>>>>, Black, {}, {}),
     SetupOf(<<<<"K", SQ.g6>>, <<"Q", SQ.g7>>, <<"k", SQ.h8>>>>, Black, {}, {}),
     SetupOf(<<<<"K", SQ.e1>>, <<"k", SQ.e8>>>>, White, {}, {}),
     \* mate in one
     SetupOf(<<<<"K", SQ.g6>>, <<"Q", SQ.a7>>, <<"k", SQ.h8>>>>, White, {}, {}),
     \* the halfmove clock at the top of its type, and one step before a carry
     WithClock(SetupOf(<<<<"K", SQ.e1>>, <<"P", SQ.a2>>, <<"k", SQ.e8>>>>, White, {}, {}),
               U32Max),
     WithClock(SetupOf(<<<<"K", SQ.e1>>, <<"P", SQ.a2>>, <<"k", SQ.e8>>>>, White, {}, {}),
               U32(0, U16Max)),
     \* rejected: the side not to move is in check; no black king
     SetupOf(<<<<"K", SQ.e1>>, <<"R", SQ.e2>>, <<"k", SQ.e8>>>>, White, {}, {}),
     SetupOf(<<<<"K", SQ.e1>>, <<"R", SQ.e2>>>>, White, {}, {})}}

WithPockets(setup, color, roles) ==
  [setup EXCEPT !.pockets =
     {[c \in Colors |-> [r \in Roles |-> IF c = color /\ r \in roles THEN 1 ELSE 0]]}]
WithPromoted(setup, promoted) == [setup EXCEPT !.board.promoted = promoted]
WithChecks(setup, white, black) ==
  [setup EXCEPT !.remaining_checks = {[c \in Colors |-> IF c = White THEN white ELSE black]}]

VariantInputs ==
  { \* Crazyhouse: drops that block a check; a promoted queen; a promotion
    Input("Crazyhouse",
          WithPockets(SetupOf(<<<<"K", SQ.e1>>, <<"r", SQ.e4>>, <<"k", SQ.h8>>>>, White, {}, {}),
                      White, {"Knight", "Pawn"})),
    Input("Crazyhouse",
          WithPromoted(SetupOf(<<<<"K", SQ.e1>>, <<"Q", SQ.b8>>, <<"r", SQ.a8>>,
                                 <<"k", SQ.h7>>>>, Black, {}, {}), {SQ.b8})),
    Input("Crazyhouse",
          SetupOf(<<<<"K", SQ.e1>>, <<"P", SQ.a7>>, <<"k", SQ.h7>>>>, White, {}, {})),
    Input("Crazyhouse",
          WithClock(SetupOf(<<<<"K", SQ.e1>>, <<"P", SQ.a2>>, <<"p", SQ.b3>>, <<"k", SQ.e8>>>>,
                            White, {}, {}), U32Max)),
    \* Crazyhouse: a pocket with every role and no check, a double check, a
    \* check by a knight, and a check along the eighth rank
    Input("Crazyhouse",
          WithPockets(SetupOf(<<<<"K", SQ.e1>>, <<"k", SQ.e8>>>>, White, {}, {}),
                      White, Roles)),
    Input("Crazyhouse",
          WithPockets(SetupOf(<<<<"K", SQ.e1>>, <<"r", SQ.e8>>, <<"n", SQ.f3>>, <<"k", SQ.a8>>>>,
                              White, {}, {}),
                      White, Roles)),
    Input("Crazyhouse",
          WithPockets(SetupOf(<<<<"K", SQ.e1>>, <<"n", SQ.f3>>, <<"k", SQ.a8>>>>, White, {}, {}),
                      White, {"Queen", "Pawn"})),
    Input("Crazyhouse",
          WithPockets(SetupOf(<<<<"K", SQ.e1>>, <<"R", SQ.a8>>, <<"k", SQ.e8>>>>, Black, {}, {}),
                      Black, {"Pawn", "Bishop", "King"})),
    \* Crazyhouse: an en passant capture and a castling move
    Input("Crazyhouse",
          SetupOf(<<<<"K", SQ.e1>>, <<"R", SQ.h1>>, <<"P", SQ.e5>>, <<"p", SQ.d5>>,
                    <<"k", SQ.e8>>>>, White, {SQ.h1}, {SQ.d6})),
    \* King of the Hill: a king one step from the hill; a king on it
    Input("KingOfTheHill", SetupOf(<<<<"K", SQ.d3>>, <<"k", SQ.h8>>>>, White, {}, {})),
    Input("KingOfTheHill", SetupOf(<<<<"K", SQ.d4>>, <<"k", SQ.h8>>>>, Black, {}, {})),
    \* Giveaway: a forced capture of the last piece; one side without pieces
    Input("Giveaway", SetupOf(<<<<"R", SQ.a1>>, <<"p", SQ.a7>>>>, White, {}, {})),
    Input("Giveaway", SetupOf(<<<<"K", SQ.a1>>>>, White, {}, {})),
    \* Giveaway: a king that can be captured, its rook keeping the castling right
    Input("Giveaway", SetupOf(<<<<"Q", SQ.e1>>, <<"k", SQ.e8>>, <<"r", SQ.h8>>>>,
                              White, {SQ.h8}, {})),
    \* Giveaway: a capturing promotion and a rook capture with castling at
    \* hand; en passant as the only capture; no capture at all
    Input("Giveaway",
          SetupOf(<<<<"K", SQ.e1>>, <<"R", SQ.h1>>, <<"P", SQ.b7>>, <<"n", SQ.a8>>,
                    <<"p", SQ.h7>>>>, White, {SQ.h1}, {})),
    Input("Giveaway",
          SetupOf(<<<<"K", SQ.e1>>, <<"R", SQ.h1>>, <<"P", SQ.e5>>, <<"p", SQ.d5>>,
                    <<"p", SQ.a7>>>>, White, {SQ.h1}, {SQ.d6})),
    Input("Giveaway",
          SetupOf(<<<<"K", SQ.e1>>, <<"R", SQ.h1>>, <<"p", SQ.a7>>>>, White, {SQ.h1}, {})),
    \* Three-check: one check left to give; none left
    Input("ThreeCheck",
          WithChecks(SetupOf(<<<<"K", SQ.e1>>, <<"R", SQ.a1>>, <<"k", SQ.e8>>>>, White, {}, {}),
                     1, 3)),
    Input("ThreeCheck",
          WithChecks(SetupOf(<<<<"K", SQ.e1>>, <<"R", SQ.a1>>, <<"k", SQ.e8>>>>, White, {}, {}),
                     0, 3)),
    Input("ThreeCheck",
          WithChecks(SetupOf(<<<<"K", SQ.e1>>, <<"k", SQ.e8>>>>, White, {}, {}), 0, 0)),
    Input("ThreeCheck",
          WithChecks(SetupOf(<<<<"K", SQ.e1>>, <<"k", SQ.e8>>, <<"r", SQ.h8>>>>, Black, {}, {}),
                     3, 2)),
    \* Horde: the last white pawn can be captured; no white piece at all
    Input("Horde", SetupOf(<<<<"P", SQ.b2>>, <<"p", SQ.a3>>, <<"k", SQ.e8>>>>, Black, {}, {})),
    Input("Horde", SetupOf(<<<<"k", SQ.e8>>>>, Black, {}, {})),
    \* Atomic: a capture next to the enemy king
    Input("Atomic",
          SetupOf(<<<<"K", SQ.e1>>, <<"N", SQ.e5>>, <<"p", SQ.d7>>, <<"k", SQ.e8>>,
                    <<"r", SQ.a8>>>>, White, {SQ.a8}, {})),
    \* Atomic: a capture on b7 with pawns and pieces of both sides around it,
    \* one of them a rook with its castling right
    Input("Atomic",
          SetupOf(<<<<"K", SQ.e1>>, <<"N", SQ.c5>>, <<"B", SQ.a6>>, <<"P", SQ.c6>>,
                    <<"p", SQ.a7>>, <<"p", SQ.b7>>, <<"r", SQ.a8>>, <<"n", SQ.c8>>,
                    <<"k", SQ.e8>>>>, White, {SQ.a8}, {})),
    \* Atomic: the king in check from a rook, and a capture next to the other
    \* king
    Input("Atomic",
          SetupOf(<<<<"K", SQ.e1>>, <<"N", SQ.g5>>, <<"r", SQ.e4>>, <<"p", SQ.f7>>,
                    <<"k", SQ.g8>>>>, White, {}, {})),
    \* Atomic: an en passant capture next to a knight and a pawn
    Input("Atomic",
          SetupOf(<<<<"K", SQ.e1>>, <<"P", SQ.e5>>, <<"p", SQ.d5>>, <<"n", SQ.c7>>,
                    <<"p", SQ.e7>>, <<"k", SQ.h8>>>>, White, {}, {SQ.d6})),
    \* Racing Kings: both kings one step from the goal
    Input("RacingKings", SetupOf(<<<<"K", SQ.g7>>, <<"k", SQ.b7>>>>, White, {}, {})),
    \* Racing Kings: knight moves that would give check, king moves into a
    \* rook's file; a setup with the side to move in check
    Input("RacingKings",
          SetupOf(<<<<"K", SQ.h2>>, <<"N", SQ.d3>>, <<"k", SQ.a2>>, <<"r", SQ.g8>>>>,
                  White, {}, {})),
    Input("RacingKings",
          SetupOf(<<<<"K", SQ.h2>>, <<"R", SQ.a8>>, <<"k", SQ.a2>>>>, Black, {}, {})),
    \* Racing Kings: White is in the goal and the goal squares next to the
    \* black king are held by black knights, or attacked by a white rook
    Input("RacingKings",
          SetupOf(<<<<"K", SQ.h8>>, <<"k", SQ.a7>>, <<"n", SQ.a8>>, <<"n", SQ.b8>>>>,
                  Black, {}, {})),
    Input("RacingKings",
          SetupOf(<<<<"K", SQ.h8>>, <<"R", SQ.d8>>, <<"k", SQ.a7>>>>, Black, {}, {})) }

Inputs == ChessInputs \cup VariantInputs

(***************************************************************************)
(* Moves offered to play and to the UCI conversion: the legal moves, the   *)
(* null move, and the moves every piece could make if check were ignored.  *)
(***************************************************************************)
PromotionRoles(variant) ==
  {"Knight", "Bishop", "Rook", "Queen"} \cup (IF KING_PROMOTIONS(variant) THEN {"King"} ELSE {})

PseudoPiece(pos, from) ==
  LET role == role_at(pos.board, from)
      occ == occupied(pos.board)
      targets == (CASE role = "King" -> king_attacks(from)
                    [] role = "Knight" -> knight_attacks(from)
                    [] role = "Bishop" -> bishop_attacks(from, occ)
                    [] role = "Rook" -> rook_attacks(from, occ)
                    [] role = "Queen" -> queen_attacks(from, occ)) \ us(pos)
  IN {Normal(role, from, role_at(pos.board, to), to, None) : to \in targets}

PseudoPawn(pos, from) ==
  LET occ == occupied(pos.board)
      step == fold(pos.turn, 8, -8)
      one == {from + step} \cap (Squares \ occ)
      two == IF one # {} /\ rank(from) = fold(pos.turn, 1, 6)
             THEN {from + 2 * step} \cap (Squares \ occ) ELSE {}
      targets == one \cup two \cup (pawn_attacks(pos.turn, from) \cap them(pos))
  IN UNION {IF rank(to) \in {0, 7}
            THEN {Normal("Pawn", from, role_at(pos.board, to), to, p) :
                    p \in PromotionRoles(pos.variant)}
            ELSE {Normal("Pawn", from, role_at(pos.board, to), to, None)} : to \in targets}
       \cup {EnPassant(from, to) : to \in pos.ep_square \cap pawn_attacks(pos.turn, from)}

PseudoLegal(pos) ==
  UNION {IF from \in pos.board.pawns THEN PseudoPawn(pos, from) ELSE PseudoPiece(pos, from) :
           from \in us(pos)}

CastleInputs(pos) ==
  {Castle(king, rook) : king \in our(pos, "King"), rook \in castling_rights(pos)}

PutInputs(pos) ==
  {Put(role, to) : role \in {"Pawn", "Knight", "Queen"},
                   to \in {SQ.e1, SQ.e2, SQ.e3, SQ.e4, SQ.h1}}

MoveInputs(pos) ==
  PseudoLegal(pos) \cup CastleInputs(pos) \cup PutInputs(pos) \cup {Null}

(***************************************************************************)
(* The state machine: a setup is validated into a position; moves are      *)
(* played on it and its accessors and conversions are called.  `call` is   *)
(* the most recent call with its arguments and its result.  The accessors  *)
(* and conversions do not change the position, so a run is followed up to  *)
(* the first call that leaves the position as it is.                       *)
(***************************************************************************)
VARIABLES setup, phase, pos, ply, call

vars == <<setup, phase, pos, ply, call>>

MaxPly == 1

Init ==
  \E input \in Inputs :
    /\ setup = input.setup
    /\ pos = PositionOf(input.variant, input.setup)
    /\ phase = "setup"
    /\ ply = 0
    /\ call = [op |-> "new"]

\* The state after V::from_setup(setup) returned error.
from_setup_result(error) ==
  /\ phase' = IF error = NoError THEN "position" ELSE "rejected"
  /\ call' = [op |-> "from_setup", error |-> error]

\* V::from_setup(setup)
FromSetup ==
  /\ phase = "setup"
  /\ from_setup_result(from_setup_error(pos.variant, setup))
  /\ UNCHANGED <<setup, pos, ply>>

\* pos.play(m)
Play ==
  /\ phase = "position"
  /\ ply < MaxPly
  /\ \E m \in MoveInputs(pos) :
       IF is_legal(pos, m)
       THEN /\ pos' = play_unchecked(pos, m)
            /\ ply' = ply + 1
            /\ call' = [op |-> "play", before |-> pos, move |-> m, ok |-> TRUE]
            /\ UNCHANGED phase
       ELSE /\ call' = [op |-> "play", before |-> pos, move |-> m, ok |-> FALSE]
            /\ phase' = "answered"
            /\ UNCHANGED <<pos, ply>>
  /\ UNCHANGED setup

\* Uci::from(&m).to_string().parse::<Uci>() and then to_move(&pos)
ToMove ==
  /\ phase = "position"
  /\ ply < MaxPly
  /\ \E m \in MoveInputs(pos) :
       LET text == uci_to_string(into_uci(m))
           parsed == uci_from_str(text)
       IN call' = [op |-> "to_move", move |-> m, text |-> text, parsed |-> parsed,
                   result |-> UNION {to_move(uci, pos) : uci \in parsed}]
  /\ phase' = "answered"
  /\ UNCHANGED <<setup, pos, ply>>

SanSquares(p) ==
  {IF m.kind = "Castle" THEN m.rook ELSE m.to : m \in MoveInputs(p) \ {Null}}

\* pos.san_candidates(role, to)
SanCandidates ==
  /\ phase = "position"
  /\ ply < MaxPly
  /\ \E role \in Roles, to \in SanSquares(pos) :
       call' = [op |-> "san_candidates", role |-> role, to |-> to,
                result |-> san_candidates(pos, role, to)]
  /\ phase' = "answered"
  /\ UNCHANGED <<setup, pos, ply>>

\* board_fen(pos.board(), promoted) and Board::from_str of its result
BoardFen ==
  /\ phase = "position"
  /\ ply < MaxPly
  /\ LET text == board_fen(pos.board, TRUE) IN
       call' = [op |-> "board_fen", text |-> text, parsed |-> board_from_str(text)]
  /\ phase' = "answered"
  /\ UNCHANGED <<setup, pos, ply>>

\* pos.ep_square() and the en passant field of epd(&pos)
EpSquare ==
  /\ phase = "position"
  /\ ply < MaxPly
  /\ call' = [op |-> "ep_square", result |-> ep_square(pos), text |-> epd_ep_square(pos)]
  /\ phase' = "answered"
  /\ UNCHANGED <<setup, pos, ply>>

\* pos.outcome() and pos.is_game_over()
Outcome ==
  /\ phase = "position"
  /\ ply < MaxPly
  /\ call' = [op |-> "outcome", result |-> outcome(pos), game_over |-> is_game_over(pos)]
  /\ phase' = "answered"
  /\ UNCHANGED <<setup, pos, ply>>

Next ==
  \/ FromSetup
  \/ Play
  \/ ToMove
  \/ SanCandidates
  \/ BoardFen
  \/ EpSquare
  \/ Outcome

Spec == Init /\ [][Next]_vars

(***************************************************************************)
(* The bitboard and FEN operations called on their own.  The call's        *)
(* argument is kept in setup, the object the call works on in pos, and the *)
(* call with its result in call.                                           *)
(***************************************************************************)
\* Bitboard::contains
bitboard_contains(bb, sq) == (bb \cap {sq}) # {}
\* Bitboard::add
add(bb, sq) == bb \cup {sq}
\* Bitboard::discard
discard(bb, sq) == bb \ {sq}
\* Bitboard::set
set(bb, sq, v) == IF v THEN discard(bb, sq) ELSE add(bb, sq)

\* u64::wrapping_sub on the bits of two bitboards.  A borrow reaches bit i
\* when the bits of a below i make a smaller number than those of b: the
\* highest bit below i in which they differ is set in b.  The borrow out of
\* bit 63 is dropped.
borrows(a, b, i) ==
  \E j \in 0 .. i - 1 :
    /\ j \in b \ a
    /\ \A k \in j + 1 .. i - 1 : (k \in a) <=> (k \in b)
wrapping_sub(a, b) == {i \in 0 .. 63 : ((i \in a) # (i \in b)) # borrows(a, b, i)}

\* Bitboard::carry_rippler
carry_rippler(bb) == [bb |-> bb, subset |-> {}, first |-> TRUE]
\* CarryRippler::next without the first flag
carry_rippler_next_unflagged(it) ==
  IF it.subset # {}
  THEN [iter |-> [it EXCEPT !.subset = wrapping_sub(it.subset, it.bb) \cap it.bb],
        item |-> {it.subset}]
  ELSE [iter |-> it, item |-> {}]
\* CarryRippler::next: the iterator after the call and the Option<Bitboard>
\* it returns.
carry_rippler_next(it) ==
  IF it.subset # {} \/ it.first
  THEN [iter |-> [it EXCEPT !.first = FALSE,
                            !.subset = wrapping_sub(it.subset, it.bb) \cap it.bb],
        item |-> {it.subset}]
  ELSE [iter |-> it, item |-> {}]

\* The masks iterated over: up to MaxMaskBits squares out of both ends and
\* the middle of the 64 bits.
MaxMaskBits == 4
MaskSquares == {0, 1, 31, 32, 62, 63}
MaskInputs ==
  {[kind |-> "mask", bb |-> bb] : bb \in {m \in SUBSET MaskSquares : Cardinality(m) <= MaxMaskBits}}
\* The arguments of Bitboard::set.
SetInputs ==
  {[kind |-> "set", bb |-> bb, sq |-> sq, v |-> v] :
     bb \in {{}, {0}, {63}, {0, 27, 63}, Squares \ {27}, Squares},
     sq \in {0, 27, 63}, v \in BOOLEAN}
BitboardInputs == MaskInputs \cup SetInputs

BitboardInit ==
  /\ setup \in BitboardInputs
  /\ phase = "input"
  /\ pos = [bb |-> {}, subset |-> {}, first |-> FALSE]
  /\ ply = 0
  /\ call = [op |-> "new"]

\* mask.carry_rippler()
CarryRippler ==
  /\ phase = "input"
  /\ setup.kind = "mask"
  /\ pos' = carry_rippler(setup.bb)
  /\ phase' = "iterating"
  /\ call' = [op |-> "carry_rippler", yielded |-> <<>>]
  /\ UNCHANGED <<setup, ply>>

\* One call of next() on the iterator, up to the call that returns None.
CarryRipplerNext ==
  /\ phase = "iterating"
  /\ LET step == carry_rippler_next(pos) IN
       /\ pos' = step.iter
       /\ call' = [op |-> "next",
                   yielded |-> IF step.item = {} THEN call.yielded
                               ELSE Append(call.yielded, CHOOSE bb \in step.item : TRUE)]
       /\ phase' = IF step.item = {} THEN "answered" ELSE "iterating"
  /\ ply' = ply + 1
  /\ UNCHANGED setup

\* bb.set(sq, v), next to bb.add(sq) and bb.discard(sq) on copies of bb
BitboardSet ==
  /\ phase = "input"
  /\ setup.kind = "set"
  /\ call' = [op |-> "set",
              result |-> set(setup.bb, setup.sq, setup.v),
              added |-> add(setup.bb, setup.sq),
              discarded |-> discard(setup.bb, setup.sq)]
  /\ phase' = "answered"
  /\ UNCHANGED <<setup, pos, ply>>

BitboardNext ==
  \/ CarryRippler
  \/ CarryRipplerNext
  \/ BitboardSet

BitboardSpec == BitboardInit /\ [][BitboardNext]_vars

(***************************************************************************)
(* FEN parsing (impl FromStr for Fen).  A Result is a record with the      *)
(* error, NoError for Ok, and the parsed value as an Option.               *)
(***************************************************************************)
\* str.split(sep): the parts between the separators, empty parts included
split(str, sep) ==
  LET at == {i \in 1 .. Len(str) : str[i] = sep}
      nth(k) == IF k = 0 THEN 0
                ELSE IF k = Cardinality(at) + 1 THEN Len(str) + 1
                ELSE CHOOSE i \in at : Cardinality({j \in at : j <= i}) = k
  IN [k \in 1 .. Cardinality(at) + 1 |-> SubSeq(str, nth(k - 1) + 1, nth(k) - 1)]
\* str.splitn(2, sep): the string cut at the first separator, if there is one
splitn(str, sep) ==
  LET at == {i \in 1 .. Len(str) : str[i] = sep} IN
  IF at = {} THEN <<str>>
  ELSE LET i == CHOOSE j \in at : \A k \in at : j <= k
       IN <<SubSeq(str, 1, i - 1), SubSeq(str, i + 1, Len(str))>>
\* str.find(ch): the index, counted from 0, of the first ch
find(str, ch) == {i - 1 : i \in {j \in 1 .. Len(str) : str[j] = ch /\ \A k \in 1 .. j - 1 : str[k] # ch}}
\* str.ends_with(ch)
ends_with(str, ch) == Len(str) > 0 /\ str[Len(str)] = ch

\* u32::from_str: the digits from the i-th on appended to n, the empty set
\* for a character that is no digit or a number above u32::MAX.
RECURSIVE parse_digits(_, _, _)
parse_digits(str, i, n) ==
  IF i > Len(str) THEN {n}
  ELSE IF to_digit(str[i]) = {} THEN {}
  ELSE LET lo == n.lo * 10 + (CHOOSE d \in to_digit(str[i]) : TRUE)
           hi == n.hi * 10 + lo \div (U16Max + 1)
       IN IF hi > U16Max THEN {} ELSE parse_digits(str, i + 1, U32(hi, lo % (U16Max + 1)))
\* str.parse::<u32>(): an optional plus sign and at least one digit
parse_u32(str) ==
  LET digits == IF Len(str) > 0 /\ str[1] = "+" THEN Tail(str) ELSE str IN
  IF digits = <<>> THEN {} ELSE parse_digits(digits, 1, U32(0, 0))
\* str.parse::<u8>()
parse_u8(str) == {n.lo : n \in {m \in parse_u32(str) : m.hi = 0 /\ m.lo <= U8Max}}

\* Color::from_bool
from_bool(white) == IF white THEN White ELSE Black
\* char::is_ascii_uppercase
is_ascii_uppercase(ch) == ch \in DOMAIN LowerOf
\* Bitboard::file
bitboard_file(f) == IF 0 <= f /\ f < 8 THEN {sq \in Squares : file(sq) = f} ELSE {}

\* Fen::empty
FenEmpty ==
  [board |-> EmptyBoard, pockets |-> {}, turn |-> White, castling_rights |-> {},
   ep_square |-> {}, remaining_checks |-> {},
   halfmove_clock |-> U32(0, 0), fullmoves |-> U32(0, 1)]
FenErr(error) == [error |-> error, fen |-> {}]

\* Fen::from_str, the pocket between the brackets: the pockets, or the
\* empty set for Err(InvalidPocket).
RECURSIVE fen_pockets(_, _, _)
fen_pockets(str, i, pockets) ==
  IF i > Len(str) THEN {pockets}
  ELSE IF piece_from_char(str[i]) = {} THEN {}
  ELSE fen_pockets(str, i + 1, pockets_add(pockets, CHOOSE p \in piece_from_char(str[i]) : TRUE))

\* Fen::from_str, the rook of a castling character with the candidates on
\* any rank
fen_castling_flag_any_rank(board, ch) ==
  LET color == from_bool(is_ascii_uppercase(ch))
      candidates == by_piece(board, Piece(color, "Rook"))
      lower == to_ascii_lowercase(ch)
  IN IF lower = "k" THEN [known |-> TRUE, flag |-> last(candidates)]
     ELSE IF lower = "q" THEN [known |-> TRUE, flag |-> first(candidates)]
     ELSE IF \E f \in 0 .. 7 : FileChars[f + 1] = lower
     THEN [known |-> TRUE,
           flag |-> first(candidates \cap
                          bitboard_file(CHOOSE f \in 0 .. 7 : FileChars[f + 1] = lower))]
     ELSE [known |-> FALSE, flag |-> {}]
\* Fen::from_str, the rook of a castling character: whether the character
\* is a castling character, and the Option<Square> it stands for.
fen_castling_flag(board, ch) ==
  LET color == from_bool(is_ascii_uppercase(ch))
      candidates == relative_rank(color, 0) \cap by_piece(board, Piece(color, "Rook"))
      lower == to_ascii_lowercase(ch)
  IN IF lower = "k" THEN [known |-> TRUE, flag |-> last(candidates)]
     ELSE IF lower = "q" THEN [known |-> TRUE, flag |-> first(candidates)]
     ELSE IF \E f \in 0 .. 7 : FileChars[f + 1] = lower
     THEN [known |-> TRUE,
           flag |-> first(candidates \cap
                          bitboard_file(CHOOSE f \in 0 .. 7 : FileChars[f + 1] = lower))]
     ELSE [known |-> FALSE, flag |-> {}]
\* Fen::from_str, the loop over the castling part: the castling rights, or
\* the empty set for Err(InvalidCastling).
RECURSIVE fen_castling(_, _, _, _)
fen_castling(board, str, i, rights) ==
  IF i > Len(str) THEN {rights}
  ELSE LET found == fen_castling_flag(board, str[i]) IN
       IF ~found.known \/ found.flag = {} THEN {}
       ELSE fen_castling(board, str, i + 1, rights \cup found.flag)

\* impl FromStr for Fen
fen_from_str(fen) ==
  LET parts == split(fen, " ")
      next(k) == IF k <= Len(parts) THEN {parts[k]} ELSE {}
      the(option) == CHOOSE x \in option : TRUE
      board_part == parts[1]
      bracketed == ends_with(board_part, "]")
      split_point == find(board_part, "[")
      pockets == IF bracketed
                 THEN fen_pockets(SubSeq(board_part, the(split_point) + 2, Len(board_part) - 1),
                                  1, PocketsDefault)
                 ELSE {}
      board == board_from_str(IF bracketed THEN SubSeq(board_part, 1, the(split_point))
                              ELSE board_part)
      turn == IF next(2) \subseteq {<<"w">>} THEN {White}
              ELSE IF next(2) = {<<"b">>} THEN {Black}
              ELSE {}
      castling == IF next(3) \subseteq {<<"-">>} THEN {{}}
                  ELSE fen_castling(the(board), the(next(3)), 1, {})
      ep == IF next(4) \subseteq {<<"-">>} THEN {{}}
            ELSE {{sq} : sq \in square_from_str(the(next(4)))}
      checks == IF next(5) = {} THEN <<>> ELSE splitn(the(next(5)), "+")
      white == parse_u8(checks[1])
      black == parse_u8(checks[2])
      halfmoves_part == IF Len(checks) = 2 THEN next(6) ELSE next(5)
      halfmoves == IF halfmoves_part = {} THEN {U32(0, 0)} ELSE parse_u32(the(halfmoves_part))
      fullmoves_part == IF Len(checks) = 2 THEN next(7) ELSE next(6)
      fullmoves == IF fullmoves_part = {} THEN {U32(0, 1)} ELSE parse_u32(the(fullmoves_part))
  IN IF bracketed /\ split_point = {} THEN FenErr("InvalidBoard")
     ELSE IF bracketed /\ pockets = {} THEN FenErr("InvalidPocket")
     ELSE IF board = {} THEN FenErr("InvalidBoard")
     ELSE IF turn = {} THEN FenErr("InvalidTurn")
     ELSE IF castling = {} THEN FenErr("InvalidCastling")
     ELSE IF ep = {} THEN FenErr("InvalidEpSquare")
     ELSE IF Len(checks) = 2 /\ white = {} THEN FenErr("InvalidRemainingChecks")
     ELSE IF Len(checks) = 2 /\ black = {} THEN FenErr("InvalidRemainingChecks")
     ELSE IF halfmoves = {} THEN FenErr("InvalidHalfmoveClock")
     ELSE IF fullmoves = {} THEN FenErr("InvalidFullmoves")
     ELSE [error |-> NoError,
           fen |-> {[FenEmpty EXCEPT
                       !.board = the(board),
                       !.pockets = pockets,
                       !.turn = the(turn),
                       !.castling_rights = the(castling),
                       !.ep_square = the(ep),
                       !.remaining_checks =
                          IF Len(checks) = 2
                          THEN {[c \in Colors |-> IF c = White THEN the(white) ELSE the(black)]}
                          ELSE {},
                       !.halfmove_clock = the(halfmoves),
                       !.fullmoves = the(fullmoves)]}]

\* A character outside ASCII (the middle dot of the parser's own test).
NonAscii == "U+00B7"
\* Ranks of a board: of eight squares, shorter, longer, with promotion marks and
\* with characters that stand for nothing.
RankTexts ==
  {<<"8">>,
   <<"4", "k", "3">>,
   <<"r", "Q", "6">>,
   <<"7">>,
   <<"9">>,
   <<"4", "4">>,
   <<"0">>,
   <<"0", "8">>,
   <<"p", "7", "p">>,
   <<"x", "7">>,
   <<"k", "~", "7">>,
   <<"~", "k", "7">>,
   <<"k", "7", "~">>,
   <<"K", "~", "k", "6">>,
   <<"1", "p", "6">>,
   <<"R", "3", "K", "2", "R">>,
   <<"7", "1">>,
   <<"3", "~", "5">>,
   <<>>}
\* The parts with the separator between them.
RECURSIVE Join(_, _)
Join(parts, sep) ==
  IF Len(parts) = 0 THEN <<>>
  ELSE IF Len(parts) = 1 THEN parts[1]
  ELSE parts[1] \o <<sep>> \o Join(Tail(parts), sep)
\* The boards parsed: seven empty ranks around one of the ranks above in
\* the first, a middle or the last place, and from no rank to MaxRanks
\* empty ranks.
MaxRanks == 9
BoardTexts ==
  {Join([i \in 1 .. 8 |-> IF i = k THEN r ELSE <<"8">>], "/") : r \in RankTexts, k \in {1, 4, 8}}
    \cup {Join([i \in 1 .. n |-> <<"8">>], "/") : n \in 0 .. MaxRanks}

\* The board parts of the FENs parsed: rooks in the corners, rooks off the corners and off
\* the first ranks, rooks on the other side's first rank, no rook, and a pocket.
FenBoardTexts ==
  {<<"r", "3", "k", "2", "r", "/", "8", "/", "8", "/", "8", "/", "8", "/", "8", "/", "8", "/", "R", "3", "K", "2", "R">>,
   <<"1", "r", "2", "k", "1", "r", "1", "/", "7", "r", "/", "8", "/", "8", "/", "8", "/", "8", "/", "7", "R", "/", "1", "R", "2", "K", "3">>,
   <<"4", "k", "3", "/", "8", "/", "8", "/", "8", "/", "8", "/", "8", "/", "8", "/", "r", "3", "K", "2", "R">>,
   <<"R", "3", "k", "3", "/", "8", "/", "8", "/", "8", "/", "8", "/", "8", "/", "8", "/", "4", "K", "2", "r">>,
   <<"8", "/", "8", "/", "8", "/", "8", "/", "8", "/", "8", "/", "8", "/", "8">>,
   <<"r", "3", "k", "2", "r", "/", "8", "/", "8", "/", "8", "/", "8", "/", "8", "/", "8", "/", "R", "3", "K", "2", "R", "[", "Q", "p", "]">>}
\* The castling parts.
CastlingTexts ==
  {<<"-">>,
   <<>>,
   <<"K", "Q", "k", "q">>,
   <<"K">>,
   <<"Q">>,
   <<"k">>,
   <<"q">>,
   <<"H", "A", "h", "a">>,
   <<"B", "b">>,
   <<"G", "g">>,
   <<"E">>,
   <<"e">>,
   <<"K", "K">>,
   <<"k", "Q">>,
   <<"K", "-">>,
   <<"x">>,
   <<"X">>,
   <<NonAscii>>,
   <<"K", NonAscii>>,
   <<"K", "x">>,
   <<"1">>,
   <<"A", "H">>,
   <<"b", "g">>,
   <<"I">>,
   <<"i">>}
\* What follows the castling part: nothing, or an en passant part and counters, well formed
\* or not.
RestTexts ==
  {<<>>,
   <<" ", "-">>,
   <<" ", "-", " ", "0", " ", "1">>,
   <<" ", "e", "3", " ", "0", " ", "1">>,
   <<" ", "-", " ", "3", "+", "3", " ", "0", " ", "1">>,
   <<" ", "-", " ", "6", "5", "5", "3", "5", " ", "6", "5", "5", "3", "6">>,
   <<" ", "-", " ", "4", "2", "9", "4", "9", "6", "7", "2", "9", "5", " ", "+", "1">>,
   <<" ", "-", " ", "0", " ", "4", "2", "9", "4", "9", "6", "7", "2", "9", "6">>,
   <<" ", "-", " ", "x", " ", "1">>,
   <<" ", "z", "z", " ", "0", " ", "1">>,
   <<" ", "-", " ", "2", "5", "6", "+", "0", " ", "0", " ", "1">>,
   <<" ", "-", " ", "0", "+", "x", " ", "0", " ", "1">>,
   <<" ", "-", " ", "+", "1", "+", "3", " ", "0", " ", "1">>,
   <<" ", "-", " ", "3", "+", "3">>}
\* FENs that end before the castling part or fail before it.
OtherFenTexts ==
  {<<"8", "/", "8", "/", "8", "/", "8", "/", "8", "/", "8", "/", "8", "/", "8">>,
   <<"8", "/", "8", "/", "8", "/", "8", "/", "8", "/", "8", "/", "8", "/", "8", " ", "b">>,
   <<"8", "/", "8", "/", "8", "/", "8", "/", "8", "/", "8", "/", "8", "/", "8", " ", "x", " ", "-", " ", "-">>,
   <<"8", "/", "8", "/", "8", "/", "8", "/", "8", "/", "8", "/", "8", "/", "8", " ", " ", "-", " ", "-">>,
   <<"8", "/", "8", "/", "8", "/", "8", "/", "8", "/", "8", "/", "8", "/", "8", "]", " ", "w", " ", "-", " ", "-">>,
   <<"8", "/", "8", "/", "8", "/", "8", "/", "8", "/", "8", "/", "8", "/", "8", "[", "Q", "x", "]", " ", "w", " ", "-", " ", "-">>,
   <<"8", "/", "8", "/", "8", "/", "8", "/", "8", "/", "8", "/", "8", "/", "8", "[", "]", " ", "b", " ", "-", " ", "-">>,
   <<"8", "/", "8", "/", "8", "/", "8", "/", "8", "/", "8", "/", "8", "/", "x", " ", "w", " ", "-", " ", "-">>,
   <<"8", "[", "K", "k", "]", " ", "w">>,
   <<"[", "]">>,
   <<>>}
FenTexts ==
  {board \o <<" ", "w", " ">> \o castling \o rest :
     board \in FenBoardTexts, castling \in CastlingTexts, rest \in RestTexts}
    \cup OtherFenTexts
FenInputs ==
  {[kind |-> "board", text |-> text] : text \in BoardTexts}
    \cup {[kind |-> "fen", text |-> text] : text \in FenTexts}

FenInit ==
  /\ setup \in FenInputs
  /\ phase = "input"
  /\ pos = FenEmpty
  /\ ply = 0
  /\ call = [op |-> "new"]

\* text.parse::<Board>()
BoardFromStr ==
  /\ phase = "input"
  /\ setup.kind = "board"
  /\ call' = [op |-> "board_from_str", result |-> board_from_str(setup.text)]
  /\ phase' = "answered"
  /\ UNCHANGED <<setup, pos, ply>>

\* text.parse::<Fen>()
FenFromStr ==
  /\ phase = "input"
  /\ setup.kind = "fen"
  /\ LET parsed == fen_from_str(setup.text) IN
       /\ call' = [op |-> "fen_from_str", error |-> parsed.error]
       /\ pos' = IF parsed.fen = {} THEN pos ELSE CHOOSE fen \in parsed.fen : TRUE
  /\ phase' = "answered"
  /\ UNCHANGED <<setup, ply>>

FenNext ==
  \/ BoardFromStr
  \/ FenFromStr

FenSpec == FenInit /\ [][FenNext]_vars

(***************************************************************************)
(* Properties of the positions and of the answers to the calls.            *)
(***************************************************************************)
\* The kings of the side that plays m are not attacked on the board m leaves.
KingSafeAfter(p, m) ==
  LET after == do_move(p, m).board IN
  \A king \in after.kings \cap by_color(after, p.turn) :
    attacks_to(after, king, Not(p.turn), occupied(after)) = {}

\* The reference: the pseudo-legal moves that leave the own king unattacked.
RefLegal(p) == {m \in PseudoLegal(p) : KingSafeAfter(p, m)}

StandardKingSafety == {"Chess", "Crazyhouse", "KingOfTheHill", "ThreeCheck"}

\* C1: in every Chess position that from_setup accepted or play reached,
\* every legal move leaves the king of the side that played it unattacked,
\* and the side not to move is not in check.
C1_KingSafety ==
  (phase = "position" /\ pos.variant = "Chess") =>
    /\ \A m \in DOMAIN legal_moves(pos) : KingSafeAfter(pos, m)
    /\ \A king \in their(pos, "King") :
         attacks_to(pos.board, king, pos.turn, occupied(pos.board)) = {}

\* A king step was played out of a check given by a slider.
C1_Witness ==
  /\ call.op = "play" /\ call.ok
  /\ call.before.variant = "Chess"
  /\ call.move.kind = "Normal" /\ call.move.role = "King"
  /\ checkers(call.before) \cap sliders(call.before.board) # {}

C4_SanCandidates ==
  (call.op = "san_candidates" /\ pos.variant = "Chess") =>
    BagToSet(call.result) = BagToSet(DefaultSanCandidates(pos, call.role, call.to))

\* C5: for every legal move m, the string of Uci::from(m) parses and
\* to_move returns Ok(m).
C5_UciRoundTrip ==
  (call.op = "to_move" /\ call.move \in DOMAIN legal_moves(pos)) =>
    call.result = {call.move}

\* C6: every move that to_move returns Ok is a legal move of the position.
C6_ToMoveLegal ==
  call.op = "to_move" => \A m \in call.result : is_legal(pos, m)

\* C7: in every variant ep_square() names a square only if a legal en passant
\* capture onto it exists (in Chess: one that leaves the own king
\* unattacked); when a square is stored and no en passant capture onto it is
\* legal, ep_square() is None and the EPD field is "-".
C7_EpSquare ==
  phase = "position" =>
    LET legal == DOMAIN legal_moves(pos) IN
    /\ \A sq \in ep_square(pos) :
         /\ \E m \in legal : m.kind = "EnPassant" /\ m.to = sq
         /\ pos.variant = "Chess" =>
              \E m \in RefLegal(pos) : m.kind = "EnPassant" /\ m.to = sq
    /\ (\A m \in legal : ~ (m.kind = "EnPassant" /\ m.to \in pos.ep_square)) =>
         (ep_square(pos) = {} /\ epd_ep_square(pos) = <<"-">>)

\* A stored en passant square that an own pawn attacks is not reported.
C7_Witness ==
  /\ call.op = "ep_square"
  /\ \E sq \in pos.ep_square : pawn_attacks(Not(pos.turn), sq) \cap our(pos, "Pawn") # {}
  /\ call.result = {} /\ call.text = <<"-">>

\* C8: parsing the string of board_fen(board, promoted = true) gives the
\* board back, the promoted pieces included.
C8_BoardFenRoundTrip ==
  call.op = "board_fen" => call.parsed = {pos.board}

\* C9: outcome() is Some exactly when is_game_over() is true.
C9_OutcomeIffGameOver ==
  phase = "position" => ((outcome(pos) # {}) <=> is_game_over(pos))

\* C10: when is_variant_end() is true, legal_moves() is empty.
C10_VariantEndAbsorbing ==
  (phase = "position" /\ is_variant_end(pos)) => is_empty(legal_moves(pos))

\* The squares whose castling right is backed by the board: a rook on the back
\* rank of its colour, with the king of that colour on the same rank.
BackedCastlingRights(board) ==
  UNION {IF by_piece(board, Piece(color, "King")) \cap relative_rank(color, 0) # {}
         THEN by_piece(board, Piece(color, "Rook")) \cap relative_rank(color, 0)
         ELSE {} : color \in Colors}

\* C11: in every position that from_setup accepted or play reached, in every
\* variant, each square of castling_rights holds a rook on the back rank of
\* its colour and the king of that colour stands on that rank.
C11_CastlingRights ==
  phase = "position" => pos.castling_rights \subseteq BackedCastlingRights(pos.board)

\* C12: in every variant the position that play_unchecked(m) produces has the
\* other side to move, for the move that play accepted and for every move
\* that can be handed to play_unchecked on a position.
C12_TurnAlternation ==
  /\ (call.op = "play" /\ call.ok) => pos.turn = Not(call.before.turn)
  /\ phase = "position" =>
       \A m \in MoveInputs(pos) \ {Null} : play_unchecked(pos, m).turn = Not(pos.turn)

\* Black castled and White is to move.
C12_Witness ==
  /\ call.op = "play" /\ call.ok /\ call.move.kind = "Castle"
  /\ call.before.turn = Black /\ pos.turn = White

\* n + 1 on the limbs of a u32, not bounded by the type.
PlusOne(n) == IF n.lo = U16Max THEN U32(n.hi + 1, 0) ELSE U32(n.hi, n.lo + 1)

\* A capture, a pawn move or an en passant capture, read off the board.
Zeroing(p, m) ==
  \/ m.kind = "EnPassant"
  \/ m.kind = "Normal" /\ (m.to \in occupied(p.board) \/ m.from \in p.board.pawns)

\* is_zeroing and the clock after an accepted play, next being the clock a
\* move that does not reset it leaves.
ClockAgrees(before, m, after, next) ==
  IF before.variant = "Crazyhouse"
  THEN ~ is_zeroing(before, m) /\ after.halfmove_clock = next
  ELSE /\ is_zeroing(before, m) <=> Zeroing(before, m)
       /\ after.halfmove_clock = IF is_zeroing(before, m) THEN U32(0, 0) ELSE next

\* C13: outside Crazyhouse is_zeroing(m) is true for captures, pawn moves and
\* en passant, and the halfmove clock after play(m) is 0 when is_zeroing(m)
\* and the clock before plus one otherwise; in Crazyhouse is_zeroing(m) is
\* false and the clock after play(m) is the clock before plus one.
C13_HalfmoveClock ==
  (call.op = "play" /\ call.ok) =>
    ClockAgrees(call.before, call.move, pos, PlusOne(call.before.halfmove_clock))

\* C13 with the clock saturating at u32::MAX: a move that does not reset the
\* clock leaves it at the clock before plus one, or at u32::MAX when it was
\* there already.
C13_HalfmoveClockSaturating ==
  (call.op = "play" /\ call.ok) =>
    ClockAgrees(call.before, call.move, pos,
                IF call.before.halfmove_clock = U32Max THEN U32Max
                ELSE PlusOne(call.before.halfmove_clock))

\* A quiet move played with the clock at u32::MAX leaves the clock there.
C13_Witness ==
  /\ call.op = "play" /\ call.ok /\ ~ Zeroing(call.before, call.move)
  /\ call.before.halfmove_clock = U32Max /\ pos.halfmove_clock = U32Max

\* The pockets with one more piece of the role for the colour.
PocketsPlus(pockets, color, role) == [pockets EXCEPT ![color][role] = @ + 1]

\* The role in which the piece on a square enters a pocket: a promoted piece
\* as the pawn it was.
BaseRoleAt(board, sq) == IF sq \in board.promoted THEN "Pawn" ELSE role_at(board, sq)

\* C14: an accepted capture in Crazyhouse adds to the captor's pocket one Pawn
\* when the captured piece stands on a square of the promoted overlay, one
\* piece of the captured role when it does not, and one Pawn when the capture
\* is en passant.
C14_CrazyhouseCapture ==
  (call.op = "play" /\ call.ok /\ call.before.variant = "Crazyhouse") =>
    /\ (call.move.kind = "Normal" /\ call.move.capture # None) =>
         pos.pockets = PocketsPlus(call.before.pockets, call.before.turn,
                                   BaseRoleAt(call.before.board, call.move.to))
    /\ call.move.kind = "EnPassant" =>
         pos.pockets = PocketsPlus(call.before.pockets, call.before.turn, "Pawn")

\* C15: an accepted move of colour c in ThreeCheck lowers the remaining checks
\* of c by one, not below zero, exactly when the side to move afterwards is
\* in check, and never changes the remaining checks of the other colour.
C15_ThreeCheckCounter ==
  (call.op = "play" /\ call.ok /\ call.before.variant = "ThreeCheck") =>
    LET c == call.before.turn
        was == call.before.remaining_checks
    IN /\ pos.remaining_checks[Not(c)] = was[Not(c)]
       /\ pos.remaining_checks[c] =
            IF checkers(pos) # {} THEN Max2(was[c] - 1, 0) ELSE was[c]
       /\ \A color \in Colors : pos.remaining_checks[color] <= was[color]

\* A move gave check and used up one of the mover's remaining checks.
C15_Witness ==
  /\ call.op = "play" /\ call.ok /\ call.before.variant = "ThreeCheck"
  /\ checkers(pos) # {}
  /\ pos.remaining_checks[call.before.turn] + 1 = call.before.remaining_checks[call.before.turn]

\* is_variant_end and variant_outcome of a ThreeCheck position, zero being
\* the colour whose count the winner's outcome goes with: is_variant_end is
\* true exactly when a count is zero, and then the outcome is decisive for a
\* winner with remaining_checks[zero[winner]] = 0.
ThreeCheckOutcomeAgrees(p, zero) ==
  /\ is_variant_end(p) <=> (p.remaining_checks[White] = 0 \/ p.remaining_checks[Black] = 0)
  /\ is_variant_end(p) =>
       \E winner \in Colors : /\ variant_outcome(p) = {Decisive(winner)}
                              /\ p.remaining_checks[zero[winner]] = 0

\* C16: in ThreeCheck is_variant_end() is true iff a remaining-checks count is
\* zero, and then variant_outcome() is decisive for the side whose opponent's
\* count is zero.
C16_ThreeCheckOutcome ==
  (phase = "position" /\ pos.variant = "ThreeCheck") =>
    ThreeCheckOutcomeAgrees(pos, [c \in Colors |-> Not(c)])

\* C16 with the winner being the side whose own count is zero, the side that
\* has given all its checks.
C16_ThreeCheckOutcomeOwnCount ==
  (phase = "position" /\ pos.variant = "ThreeCheck") =>
    ThreeCheckOutcomeAgrees(pos, [c \in Colors |-> c])

\* White gave its last check: its count is zero and White has won.
C16_Witness ==
  /\ call.op = "play" /\ call.ok /\ pos.variant = "ThreeCheck"
  /\ call.before.remaining_checks[White] = 1 /\ pos.remaining_checks[White] = 0
  /\ pos.remaining_checks[Black] > 0
  /\ is_variant_end(pos) /\ variant_outcome(pos) = {Decisive(White)}

\* The square of the piece that a capturing move takes.
CapturedSquare(m) == IF m.kind = "EnPassant" THEN combine(m.to, m.from) ELSE m.to

\* The squares a move without capture may change: its own squares, and for
\* castling the back rank it is played on.
MoveSquares(m) ==
  CASE m.kind = "Normal" -> {m.from, m.to}
    [] m.kind = "Castle" -> Rank(rank(m.king))
    [] OTHER -> {m.to}

\* C17: an accepted capture in Atomic (Normal with capture, or en passant)
\* leaves its destination `to` empty, removes every piece that is not a pawn
\* from the squares of king_attacks(to), keeps every pawn there other than
\* the capturing pawn and the pawn captured en passant, leaves every square
\* outside {from, to, captured-pawn square} and king_attacks(to) as it was,
\* and leaves no castling right on `to` or on a detonated square; a move
\* that does not capture removes no piece.
C17_AtomicDetonation ==
  (call.op = "play" /\ call.ok /\ call.before.variant = "Atomic") =>
    LET m == call.move
        old == call.before.board
        new == pos.board
    IN IF (m.kind = "Normal" /\ m.to \in occupied(old)) \/ m.kind = "EnPassant"
       THEN LET moved == {m.from, m.to, CapturedSquare(m)} IN
            /\ moved \cap occupied(new) = {}
            /\ \A sq \in king_attacks(m.to) \ moved :
                 IF sq \in old.pawns THEN piece_at(new, sq) = piece_at(old, sq)
                 ELSE sq \notin occupied(new)
            /\ \A sq \in Squares \ (moved \cup king_attacks(m.to)) :
                 piece_at(new, sq) = piece_at(old, sq)
            /\ pos.castling_rights \cap ({m.to} \cup (king_attacks(m.to) \ old.pawns)) = {}
       ELSE /\ Cardinality(occupied(new)) = Cardinality(occupied(old))
            /\ \A sq \in Squares \ MoveSquares(m) : piece_at(new, sq) = piece_at(old, sq)

\* A capture exploded a rook that had its castling right and left a pawn
\* next to the destination standing.
C17_Witness ==
  /\ call.op = "play" /\ call.ok /\ call.before.variant = "Atomic"
  /\ call.move.kind = "Normal" /\ call.move.capture # None
  /\ king_attacks(call.move.to) \cap call.before.castling_rights # {}
  /\ (king_attacks(call.move.to) \cap pos.board.pawns) \ {call.move.from} # {}
  /\ king_attacks(call.move.to) \cap call.before.board.knights \cap call.before.board.black # {}

\* No king on the board is attacked by a piece of the other colour.
NoKingAttacked(board) ==
  \A king \in board.kings :
    attacks_to(board, king, Not(color_at(board, king)), occupied(board)) = {}

\* C18: in every RacingKings position that from_setup accepted or play
\* reached neither king is attacked, and no legal move leaves a king of
\* either side attacked.
C18_RacingKingsNoCheck ==
  (phase = "position" /\ pos.variant = "RacingKings") =>
    /\ checkers(pos) = {}
    /\ NoKingAttacked(pos.board)
    /\ \A m \in DOMAIN legal_moves(pos) : NoKingAttacked(do_move(pos, m).board)

\* A move was played in a position where another move of the same side
\* would have given check and a third would have exposed its own king.
C18_Witness ==
  /\ call.op = "play" /\ call.ok /\ pos.variant = "RacingKings"
  /\ \E m \in PseudoLegal(call.before) :
       LET after == do_move(call.before, m).board IN
       by_piece(after, Piece(pos.turn, "King")) # {}
         /\ \E king \in by_piece(after, Piece(pos.turn, "King")) :
              attacks_to(after, king, call.before.turn, occupied(after)) # {}
  /\ \E m \in PseudoLegal(call.before) : ~ KingSafeAfter(call.before, m)

\* C19: RacingKings is_variant_end() is false when no king stands on rank 8;
\* true when a king stands there and White is to move or the black king is
\* there; and when only the white king is there and Black is to move, true
\* exactly when the black king has no move to a square of rank 8 that no
\* white piece attacks.
C19_RacingKingsGrace ==
  (phase = "position" /\ pos.variant = "RacingKings") =>
    LET board == pos.board
        black_king == by_piece(board, Piece(Black, "King"))
    IN is_variant_end(pos) <=>
         IF board.kings \cap Rank(7) = {} THEN FALSE
         ELSE IF pos.turn = White \/ black_king \cap Rank(7) # {} THEN TRUE
         ELSE ~ \E k \in black_king :
                  \E target \in (king_attacks(k) \cap Rank(7)) \ board.black :
                    attacks_to(board, target, White, occupied(board)) = {}

\* The pseudo-legal moves that capture: a move onto a piece of the other
\* side, a capturing promotion included, or an en passant capture.
Captures(p) ==
  {m \in PseudoLegal(p) : m.kind = "EnPassant" \/ (m.kind = "Normal" /\ m.to \in them(p))}

\* C20: in every Giveaway position, when a capture exists legal_moves() is
\* exactly the captures, each a Normal move with a captured role or an en
\* passant capture; when none exists legal_moves() is the moves that do not
\* capture, together with castling.
C20_GiveawayCapture ==
  (phase = "position" /\ pos.variant = "Giveaway") =>
    LET legal == DOMAIN legal_moves(pos)
        captures == Captures(pos)
    IN IF captures # {}
       THEN /\ legal = captures
            /\ \A m \in legal : m.kind = "EnPassant" \/ m.capture # None
       ELSE /\ {m \in legal : m.kind # "Castle"} = PseudoLegal(pos)
            /\ \A m \in legal : m.kind = "Normal" => m.capture = None

\* A pawn can promote to a king by capturing, while castling and moves that
\* do not capture are at hand.
C20_Witness ==
  /\ phase = "position" /\ pos.variant = "Giveaway"
  /\ \E m \in DOMAIN legal_moves(pos) :
       /\ m.kind = "Normal" /\ m.capture # None /\ m.promotion = "King"
  /\ gen_castling_moves(pos, SQ.e1) # NoMoves
  /\ PseudoLegal(pos) \ Captures(pos) # {}


\* C21: carry_rippler(mask) ends after yielding exactly 2^popcount(mask)
\* bitboards: every one a subset of mask, no two equal, the empty bitboard
\* first, and together all the subsets of mask.
C21_CarryRippler ==
  (setup.kind = "mask" /\ phase \in {"iterating", "answered"}) =>
    LET yielded == call.yielded IN
      /\ \A i \in 1 .. Len(yielded) : yielded[i] \subseteq setup.bb
      /\ \A i, j \in 1 .. Len(yielded) : i # j => yielded[i] # yielded[j]
      /\ Len(yielded) >= 1 => yielded[1] = {}
      /\ Len(yielded) <= 2 ^ Cardinality(setup.bb)
      /\ ply <= 2 ^ Cardinality(setup.bb) + 1
      /\ phase = "answered" =>
           /\ Len(yielded) = 2 ^ Cardinality(setup.bb)
           /\ {yielded[i] : i \in 1 .. Len(yielded)} = SUBSET setup.bb
\* The iterator over a mask of four squares with bits 0 and 63 has returned
\* None after sixteen bitboards.
C21_Witness ==
  /\ setup.kind = "mask"
  /\ phase = "answered"
  /\ {0, 63} \subseteq setup.bb
  /\ Cardinality(setup.bb) = 4
  /\ Len(call.yielded) = 16
\* The iterator over the empty mask has returned None after the empty
\* bitboard alone.
C21_WitnessEmptyMask ==
  /\ setup.kind = "mask"
  /\ phase = "answered"
  /\ setup.bb = {}
  /\ call.yielded = <<{}>>

\* C29: after set(sq, true) the bitboard contains sq, after set(sq, false)
\* it does not, the other squares are as before, and set(sq, true) is
\* add(sq), set(sq, false) is discard(sq).
C29_BitboardSet ==
  (setup.kind = "set" /\ phase = "answered") =>
    /\ bitboard_contains(call.result, setup.sq) = setup.v
    /\ call.result \ {setup.sq} = setup.bb \ {setup.sq}
    /\ call.result = IF setup.v THEN call.added ELSE call.discarded

\* The rook a castling character stands for: of the colour of the letter's
\* case, on that colour's first rank, on the highest file for K and k, on
\* the lowest for Q and q, on the letter's file for A to H and a to h.
CastlingRook(board, ch) ==
  LET white == ch \in {"K", "Q", "A", "B", "C", "D", "E", "F", "G", "H"}
      rooks == {sq \in board.rooks \cap (IF white THEN board.white ELSE board.black) :
                  rank(sq) = IF white THEN 0 ELSE 7}
  IN IF ch \in {"K", "k"} THEN {sq \in rooks : \A other \in rooks : file(other) <= file(sq)}
     ELSE IF ch \in {"Q", "q"} THEN {sq \in rooks : \A other \in rooks : file(sq) <= file(other)}
     ELSE {sq \in rooks : \E f \in 1 .. 8 : ch \in {FileChars[f], UpperOf[FileChars[f]]}
                                            /\ file(sq) = f - 1}
\* The FEN with a dash for its castling part.
WithoutCastling(text) == Join([split(text, " ") EXCEPT ![3] = <<"-">>], " ")
\* C22: a FEN whose castling part is not the dash, and that parses with a
\* dash in its place, parses exactly when every character of the part
\* stands for a rook; the castling rights are then those rooks, and the
\* error is InvalidCastling otherwise.
C22_FenCastling ==
  (/\ phase = "answered"
   /\ call.op = "fen_from_str"
   /\ Len(split(setup.text, " ")) >= 3
   /\ split(setup.text, " ")[3] # <<"-">>
   /\ fen_from_str(WithoutCastling(setup.text)).error = NoError) =>
    LET part == split(setup.text, " ")[3]
        board == (CHOOSE fen \in fen_from_str(WithoutCastling(setup.text)).fen : TRUE).board
        rooks == [i \in 1 .. Len(part) |-> CastlingRook(board, part[i])]
        mapped == \A i \in 1 .. Len(part) : rooks[i] # {}
    IN /\ (call.error = NoError) <=> mapped
       /\ mapped => pos.castling_rights = UNION {rooks[i] : i \in 1 .. Len(part)}
       /\ ~mapped => call.error = "InvalidCastling"
\* A FEN with rooks on b1, h2, b8 and g8 and the castling part kQ has
\* parsed, with the rights of the rooks on b1 and g8.
C22_Witness ==
  /\ phase = "answered"
  /\ call.op = "fen_from_str"
  /\ call.error = NoError
  /\ Len(split(setup.text, " ")) >= 3
  /\ split(setup.text, " ")[3] = <<"k", "Q">>
  /\ pos.castling_rights = {SQ.b1, SQ.g8}
  /\ SQ.h2 \in by_piece(pos.board, Piece(White, "Rook"))

\* A rank of the board grammar: piece letters, each with or without a
\* tilde behind it, and digits from 1 to 8, eight squares wide.
RankGrammar(str) ==
  LET letters == DOMAIN RoleOfChar \cup {UpperOf[ch] : ch \in DOMAIN RoleOfChar}
      width(i) == IF str[i] \in letters THEN 1
                  ELSE IF str[i] = "~" THEN 0
                  ELSE CHOOSE d \in to_digit(str[i]) : TRUE
      widths == [i \in 1 .. Len(str) |-> width(i)]
  IN /\ \A i \in 1 .. Len(str) :
          \/ str[i] \in letters
          \/ to_digit(str[i]) \cap (1 .. 8) # {}
          \/ str[i] = "~" /\ i > 1 /\ str[i - 1] \in letters
     /\ SumOver(widths, 1 .. Len(str)) = 8
\* The board grammar: eight ranks with a slash between them.
BoardGrammar(str) ==
  /\ Len(split(str, "/")) = 8
  /\ \A k \in 1 .. 8 : RankGrammar(split(str, "/")[k])
\* C23: parsing a board fails for every string outside the board grammar.
C23_BoardGrammar ==
  (phase = "answered" /\ call.op = "board_from_str" /\ ~BoardGrammar(setup.text)) =>
    call.result = {}

RankPath(from, to) ==
  {sq \in Squares : (from < sq /\ sq <= to) \/ (to <= sq /\ sq < from)}
\* The conditions under which the side to move may castle with the king on
\* king and the rook on rook.
MayCastle(p, king, rook) ==
  LET back == IF p.turn = White THEN 0 ELSE 7
      enemy == Not(p.turn)
      occ == occupied(p.board)
      king_to == 8 * back + (IF rook > king THEN 6 ELSE 2)
      rook_to == 8 * back + (IF rook > king THEN 5 ELSE 3)
      paths == RankPath(king, king_to) \cup RankPath(rook, rook_to)
      heavy == by_color(p.board, enemy) \cap (p.board.rooks \cup p.board.queens) \cap Rank(back)
  IN /\ attacks_to(p.board, king, enemy, occ) = {}
     /\ rook \in p.castling_rights \cap Rank(back)
     /\ paths \cap (occ \ {king, rook}) = {}
     /\ \A sq \in RankPath(king, king_to) \cup {king} :
          attacks_to(p.board, sq, enemy, occ \ {king}) = {}
     /\ \A from \in heavy \ {king_to} :
          (RankPath(from, king_to) \ {king_to}) \cap (occ \ {rook}) # {}
\* C25: in Chess the legal moves hold the castling move of the king with a
\* rook exactly when the side to move is not in check, the rook has its
\* castling right on the back rank, the paths of king and rook are empty but
\* for the two, no square of the king's path nor the king's square is
\* attacked with the king lifted off the board, and lifting the rook opens
\* no attack of a rook or queen along the back rank on the king's
\* destination.
C25_CastlingLegal ==
  (phase = "position" /\ pos.variant = "Chess") =>
    LET legal == legal_moves(pos) IN
      /\ \A king \in our(pos, "King"), rook \in Squares :
           contains(legal, Castle(king, rook)) <=> MayCastle(pos, king, rook)
      /\ \A m \in DOMAIN legal : m.kind = "Castle" => m.king \in our(pos, "King")
\* A Chess position where one castling move is legal and the other is not:
\* the rook on a1 has its right and empty squares up to the king, but the
\* king would cross an attacked square.
C25_Witness ==
  /\ phase = "position" /\ pos.variant = "Chess"
  /\ \E king \in our(pos, "King") :
       \E yes, no \in pos.castling_rights \cap relative_rank(pos.turn, 0) :
         /\ contains(legal_moves(pos), Castle(king, yes))
         /\ ~contains(legal_moves(pos), Castle(king, no))
\* A Chess position where the only obstacle to castling is the queen behind
\* the rook.
C25_WitnessUncovered ==
  /\ phase = "position" /\ pos.variant = "Chess"
  /\ pos.castling_rights = {SQ.b1}
  /\ our(pos, "King") = {SQ.c1}
  /\ rank_attack_uncovered(pos, SQ.b1, SQ.c1)
  /\ ~contains(legal_moves(pos), Castle(SQ.c1, SQ.b1))

\* The candidates of Atomic: en passant, the moves of the pieces other than
\* the king to squares without a piece of their side, the moves of the king
\* to empty squares, and castling.
AtomicCandidates(p) ==
  {m \in PseudoLegal(p) :
     ~(m.kind = "Normal" /\ m.role = "King" /\ m.to \in occupied(p.board))}
    \cup UNION {DOMAIN gen_castling_moves(p, king) : king \in our(p, "King")}
\* The king of the side that moved stands on the board a move and its
\* explosion leave.
AtomicKingLeft(p, m) ==
  by_piece(AtomicPlayUnchecked(p, m).board, Piece(p.turn, "King")) # {}
\* No king of the side that moved is attacked on the board a move and its
\* explosion leave, a king next to the other king counting as not attacked.
AtomicKingUnattacked(p, m) ==
  LET after == AtomicPlayUnchecked(p, m).board
      enemy == Not(p.turn)
  IN \A king \in by_piece(after, Piece(p.turn, "King")) :
       \/ king_attacks(king) \cap by_piece(after, Piece(enemy, "King")) # {}
       \/ attacks_to(after, king, enemy, occupied(after)) = {}
\* C26: in Atomic a candidate is a legal move exactly when, after it and its
\* explosion, the king of the side that moved is on the board and not
\* attacked.
C26_AtomicLegal ==
  (phase = "position" /\ pos.variant = "Atomic") =>
    LET legal == legal_moves(pos) IN
      \A m \in AtomicCandidates(pos) :
        contains(legal, m) <=> (AtomicKingLeft(pos, m) /\ AtomicKingUnattacked(pos, m))
\* C26, amended: in Atomic the legal moves are the candidates after which
\* the king of the side that moved is on the board and either the other
\* side has no king left or the king of the side that moved is not attacked.
C26_AtomicLegalOrKingExploded ==
  (phase = "position" /\ pos.variant = "Atomic") =>
    LET legal == legal_moves(pos) IN
      /\ DOMAIN legal \subseteq AtomicCandidates(pos)
      /\ \A m \in AtomicCandidates(pos) :
           contains(legal, m) <=>
             /\ AtomicKingLeft(pos, m)
             /\ \/ by_piece(AtomicPlayUnchecked(pos, m).board, Piece(Not(pos.turn), "King")) = {}
                \/ AtomicKingUnattacked(pos, m)
\* An Atomic position with the king in check where one capture that
\* explodes the other king is legal and leaves the king attacked, and
\* another candidate is not legal.
C26_Witness ==
  /\ phase = "position" /\ pos.variant = "Atomic"
  /\ checkers(pos) # {}
  /\ \E m \in AtomicCandidates(pos) :
       /\ contains(legal_moves(pos), m)
       /\ by_piece(AtomicPlayUnchecked(pos, m).board, Piece(Not(pos.turn), "King")) = {}
       /\ ~AtomicKingUnattacked(pos, m)
  /\ \E m \in AtomicCandidates(pos) : ~contains(legal_moves(pos), m)

\* The squares a piece may be dropped on: every empty square when the king
\* of the side to move is not attacked, the squares between the king and
\* the one piece that attacks it, and none when two pieces attack it.
DropSquares(p) ==
  LET empty == Squares \ occupied(p.board)
      attackers == UNION {attacks_to(p.board, king, Not(p.turn), occupied(p.board)) :
                            king \in our(p, "King")}
  IN IF attackers = {} THEN empty
     ELSE IF Cardinality(attackers) = 1
     THEN empty \cap UNION {between(king, checker) : king \in our(p, "King"),
                                                    checker \in attackers}
     ELSE {}
\* The drops of the roles the side to move has in its pocket, pawns on the
\* ranks 2 to 7 only and never a king.
Drops(p) ==
  {Put(role, to) : role \in {r \in {"Pawn", "Knight", "Bishop", "Rook", "Queen"} :
                               p.pockets[p.turn][r] > 0},
                   to \in DropSquares(p)}
    \ {Put("Pawn", to) : to \in Rank(0) \cup Rank(7)}
\* C27: in a Crazyhouse position the Put moves among the legal moves are the
\* drops of the roles in the pocket of the side to move, other than the
\* king, on the squares a piece may be dropped on, pawns not on the first
\* and the eighth rank; none of them leaves the king of the side that moved
\* attacked.
C27_CrazyhouseDrops ==
  (phase = "position" /\ pos.variant = "Crazyhouse") =>
    LET puts == {m \in DOMAIN legal_moves(pos) : m.kind = "Put"} IN
      /\ puts = Drops(pos)
      /\ \A m \in puts : KingSafeAfter(pos, m)
\* A Crazyhouse position with the king in check from one rook along the
\* eighth rank and a pawn, a bishop and a king in the pocket: the bishop can
\* be dropped between the two, the pawn and the king cannot.
C27_Witness ==
  /\ phase = "position" /\ pos.variant = "Crazyhouse"
  /\ Cardinality(checkers(pos)) = 1
  /\ \A role \in {"Pawn", "Bishop", "King"} : pos.pockets[pos.turn][role] > 0
  /\ {m \in DOMAIN legal_moves(pos) : m.kind = "Put"}
       = {Put("Bishop", to) : to \in {SQ.b8, SQ.c8, SQ.d8}}

\* The pieces on the board and in the pockets of both sides.
Material(board, pockets) == Cardinality(occupied(board)) + pockets_count(pockets)
\* C30: a move accepted in Crazyhouse keeps the number of pieces on the
\* board and in the two pockets together: a capture takes one piece off the
\* board and adds one to the pocket of the side that moved, a Put takes one
\* piece that side had in its pocket and adds one to the board, and every
\* other move changes neither number; in every Crazyhouse position the
\* number is the one of the setup and at most 32.
C30_CrazyhouseMaterial ==
  /\ (call.op = "play" /\ call.ok /\ call.before.variant = "Crazyhouse") =>
       LET m == call.move
           old == call.before
           on_board(p) == Cardinality(occupied(p.board))
           in_pocket(p, color) == SumOver(p.pockets[color], Roles)
           captures == (m.kind = "Normal" /\ m.to \in occupied(old.board))
                         \/ m.kind = "EnPassant"
       IN /\ Material(pos.board, pos.pockets) = Material(old.board, old.pockets)
          /\ in_pocket(pos, Not(old.turn)) = in_pocket(old, Not(old.turn))
          /\ captures =>
               /\ on_board(pos) = on_board(old) - 1
               /\ in_pocket(pos, old.turn) = in_pocket(old, old.turn) + 1
          /\ m.kind = "Put" =>
               /\ old.pockets[old.turn][m.role] > 0
               /\ pos.pockets[old.turn][m.role] = old.pockets[old.turn][m.role] - 1
               /\ on_board(pos) = on_board(old) + 1
               /\ in_pocket(pos, old.turn) = in_pocket(old, old.turn) - 1
          /\ (~captures /\ m.kind # "Put") =>
               /\ on_board(pos) = on_board(old)
               /\ pos.pockets = old.pockets
  /\ (phase = "position" /\ pos.variant = "Crazyhouse") =>
       /\ Material(pos.board, pos.pockets)
            = Cardinality(occupied(setup.board))
                + (IF setup.pockets = {} THEN 0
                   ELSE pockets_count(CHOOSE pockets \in setup.pockets : TRUE))
       /\ Material(pos.board, pos.pockets) <= 32
\* A Put was played in Crazyhouse from a pocket that held one piece of the
\* role and holds none now.
C30_Witness ==
  /\ call.op = "play" /\ call.ok /\ call.before.variant = "Crazyhouse"
  /\ call.move.kind = "Put"
  /\ call.before.pockets[call.before.turn][call.move.role] = 1
  /\ pos.pockets[call.before.turn][call.move.role] = 0
\* A capture was played in Crazyhouse.
C30_WitnessCapture ==
  /\ call.op = "play" /\ call.ok /\ call.before.variant = "Crazyhouse"
  /\ call.move.kind \in {"Normal", "EnPassant"}
  /\ Cardinality(occupied(pos.board)) < Cardinality(occupied(call.before.board))

\* The en passant square of a setup is one that no double push leaves: it
\* is not on the sixth rank of the side to move, or the square before it
\* holds no pawn of the other side, or the square or the one behind it is
\* occupied.
BadEpSquare(s) ==
  \E sq \in s.ep_square :
    LET before == sq + (IF s.turn = White THEN -8 ELSE 8)
        behind == sq + (IF s.turn = White THEN 8 ELSE -8)
    IN \/ rank(sq) # (IF s.turn = White THEN 5 ELSE 2)
       \/ before \notin by_piece(s.board, Piece(Not(s.turn), "Pawn"))
       \/ sq \in occupied(s.board)
       \/ behind \in occupied(s.board)
\* C28: from_setup accepts no setup with such an en passant square.
C28_EpSquareValidated ==
  (call.op = "from_setup" /\ BadEpSquare(setup)) => call.error # NoError

=============================================================================
